---- MODULE Spec2Model ----
(***************************************************************************)
(* Model of the prime-number engine of actividad2OS:                       *)
(*   apps/primes-sequential   sieve_of_eratosthenes                        *)
(*   apps/primes-multithread  simple_sieve, sieve_segment,                 *)
(*                            segmented_sieve_parallel (threads + mutexes) *)
(*   apps/primes-mpi          simple_sieve, sieve_segment, run_mpi,        *)
(*                            tcp_impl (serialize_work, deserialize_work,  *)
(*                            run_master, run_worker), run_single_node,    *)
(*                            main                                         *)
(*   apps/scheduler-sim       calculate_primes                             *)
(*                                                                         *)
(* u64 values are modelled by naturals below 2^31; every bound used here   *)
(* keeps all intermediate values far below 2^64, so no wrap-around occurs. *)
(***************************************************************************)
EXTENDS Integers, Sequences, FiniteSets, TLC

(***************************************************************************)
(* Bounds of the model.                                                    *)
(***************************************************************************)
MaxLimit == 26        \* largest args.limit of an engine run
MaxWorkers == 3       \* largest thread count / rank count / args.workers
MaxTcpWorkers == 2    \* largest args.workers and number of started socket workers
MaxTcpLimit == 12     \* largest args.limit of a socket run
MaxFnLimit == 40      \* largest limit given to a plain sieve call
MaxHigh == 30         \* largest low / high given to a sieve_segment call
MaxBase == 5          \* base primes of a sieve_segment call are primes <= MaxBase
MaxPrimesLen == 2     \* longest base-prime sequence of a serialize_work call
MaxSchedThreads == 2  \* largest num_threads of a run_with_policy call
MaxIterations == 1    \* largest iterations of a run_with_policy call
MaxSchedLimit == 10   \* largest limit of a run_with_policy call

(***************************************************************************)
(* Mathematical reference notions (not code).                              *)
(***************************************************************************)
IsPrime(n) == n >= 2 /\ \A d \in 2..(n - 1) : n % d # 0

PrimesIn(lo, hi) == {p \in lo..hi : IsPrime(p)}

Range(s) == {s[i] : i \in 1..Len(s)}

StrictlyIncreasing(s) == \A i \in 1..(Len(s) - 1) : s[i] < s[i + 1]

RECURSIVE SumSeq(_)
SumSeq(s) == IF s = <<>> THEN 0 ELSE Head(s) + SumSeq(Tail(s))

RECURSIVE Flatten(_)
Flatten(ss) == IF ss = <<>> THEN <<>> ELSE Head(ss) \o Flatten(Tail(ss))

RECURSIVE SortedSeq(_)
SortedSeq(S) ==
    IF S = {} THEN <<>>
    ELSE LET m == CHOOSE x \in S : \A y \in S : x <= y
         IN  <<m>> \o SortedSeq(S \ {m})

(***************************************************************************)
(* Pure functions of the Rust sources.                                     *)
(***************************************************************************)

\* Variant: the square root rounded up.
sqrt_u64_ceil(limit) ==
    CHOOSE r \in 0..limit : r * r >= limit /\ (r = 0 \/ (r - 1) * (r - 1) < limit)

\* `(limit as f64).sqrt() as u64`: the square root truncated towards zero
\* (exact for every limit below 2^52).
sqrt_u64(limit) ==
    CHOOSE r \in 0..limit : r * r <= limit /\ (r + 1) * (r + 1) > limit

\* `while multiple <= limit { is_prime[multiple] = false; multiple += num; }`
\* The array is indexed from `offset` (0 for the plain sieve, low for a segment).
RECURSIVE MarkMultiples(_, _, _, _, _)
MarkMultiples(is_prime, multiple, step, high, offset) ==
    IF multiple > high THEN is_prime
    ELSE MarkMultiples([is_prime EXCEPT ![multiple - offset] = FALSE],
                       multiple + step, step, high, offset)

\* `for num in 2..=sqrt_limit { if is_prime[num] { ...mark from num*num... } }`
RECURSIVE SieveLoop(_, _, _, _)
SieveLoop(is_prime, num, sqrt_limit, limit) ==
    IF num > sqrt_limit THEN is_prime
    ELSE SieveLoop(IF is_prime[num]
                   THEN MarkMultiples(is_prime, num * num, num, limit, 0)
                   ELSE is_prime,
                   num + 1, sqrt_limit, limit)

\* `is_prime.iter().enumerate().filter(|(_, &prime)| prime).map(|(idx, _)| base + idx)`
\* over the indices idx..last, in index order.
RECURSIVE CollectTrue(_, _, _, _)
CollectTrue(is_prime, idx, last, base) ==
    IF idx > last THEN <<>>
    ELSE (IF is_prime[idx] THEN <<base + idx>> ELSE <<>>)
         \o CollectTrue(is_prime, idx + 1, last, base)

\* Variant: the outer loop stops one short of sqrt_limit (`2..sqrt_limit`).
SieveSkipSquareRoot(limit) ==
    IF limit < 2 THEN <<>>
    ELSE LET is_prime0 == [i \in 0..limit |-> i >= 2]
             marked == SieveLoop(is_prime0, 2, sqrt_u64(limit) - 1, limit)
         IN  CollectTrue(marked, 0, limit, 0)

\* The plain sieve body shared, text for text, by the four copies below.
PlainSieve(limit) ==
    IF limit < 2 THEN <<>>
    ELSE LET is_prime0 == [i \in 0..limit |-> i >= 2]
             marked == SieveLoop(is_prime0, 2, sqrt_u64(limit), limit)
         IN  CollectTrue(marked, 0, limit, 0)

\* apps/primes-sequential
sieve_of_eratosthenes(limit) == PlainSieve(limit)

\* apps/primes-multithread and apps/primes-mpi (identical text)
simple_sieve(limit) == PlainSieve(limit)

\* apps/scheduler-sim
calculate_primes(limit) == PlainSieve(limit)

\* Variant: always the first multiple of prime at or above low.
FirstMultipleNoSquare(low, prime) ==
    LET remainder == low % prime
    IN  IF remainder = 0 THEN low ELSE low + (prime - remainder)

\* `let start = if low <= prime * prime { prime * prime } else { ... }`
FirstMultiple(low, prime) ==
    IF low <= prime * prime THEN prime * prime
    ELSE LET remainder == low % prime
         IN  IF remainder = 0 THEN low ELSE low + (prime - remainder)

\* `for &prime in base_primes { if prime * prime > high { continue; } ... }`
RECURSIVE SegmentLoop(_, _, _, _, _)
SegmentLoop(is_prime, k, base_primes, low, high) ==
    IF k > Len(base_primes) THEN is_prime
    ELSE LET prime == base_primes[k]
         IN  SegmentLoop(IF prime * prime > high THEN is_prime
                         ELSE MarkMultiples(is_prime, FirstMultiple(low, prime),
                                            prime, high, low),
                         k + 1, base_primes, low, high)

\* sieve_segment (identical text in primes-multithread and primes-mpi).
\* Index i of the local array stands for the number low + i.
sieve_segment(low, high, base_primes) ==
    IF low > high THEN <<>>
    ELSE LET segment_size == high - low + 1
             is_prime0 == [i \in 0..(segment_size - 1) |->
                             ~ ((low = 0 /\ i = 0) \/ (low <= 1 /\ high >= 1 /\ i = 1 - low))]
             marked == SegmentLoop(is_prime0, 1, base_primes, low, high)
             collected == CollectTrue(marked, 0, segment_size - 1, low)
         IN  SelectSeq(collected, LAMBDA n : n > 1)

(***************************************************************************)
(* Wire format of the socket strategy (tcp_impl).                          *)
(***************************************************************************)

\* `x.to_le_bytes()` for an integer of `width` bytes: least significant first.
RECURSIVE to_le_bytes(_, _)
to_le_bytes(x, width) ==
    IF width = 0 THEN <<>>
    ELSE <<x % 256>> \o to_le_bytes(x \div 256, width - 1)

\* `u64::from_le_bytes(..)` / `u32::from_le_bytes(..)`
RECURSIVE from_le_bytes(_)
from_le_bytes(bytes) ==
    IF bytes = <<>> THEN 0
    ELSE Head(bytes) + 256 * from_le_bytes(Tail(bytes))

\* `for &p in base_primes { data.extend(&p.to_le_bytes()); }`
RECURSIVE EncodePrimes(_)
EncodePrimes(base_primes) ==
    IF base_primes = <<>> THEN <<>>
    ELSE to_le_bytes(Head(base_primes), 8) \o EncodePrimes(Tail(base_primes))

\* Variant: high is written before low.
serialize_work_high_first(low, high, base_primes) ==
    to_le_bytes(high, 8) \o to_le_bytes(low, 8)
        \o to_le_bytes(Len(base_primes), 8) \o EncodePrimes(base_primes)

\* serialize_work: low, high, base_primes.len(), then the primes
serialize_work(low, high, base_primes) ==
    to_le_bytes(low, 8) \o to_le_bytes(high, 8)
        \o to_le_bytes(Len(base_primes), 8) \o EncodePrimes(base_primes)

\* `data[a..b]` with Rust's 0-based, end-exclusive indices
Slice(data, a, b) == SubSeq(data, a + 1, b)

deserialize_work(data) ==
    LET low == from_le_bytes(Slice(data, 0, 8))
        high == from_le_bytes(Slice(data, 8, 16))
        count == from_le_bytes(Slice(data, 16, 24))
        base_primes == [i \in 1..count |->
                          LET start == 24 + (i - 1) * 8
                          IN  from_le_bytes(Slice(data, start, start + 8))]
    IN  <<low, high, base_primes>>

(***************************************************************************)
(* Partitioning of (sqrt_limit, limit] (the same arithmetic in             *)
(* segmented_sieve_parallel, mpi_impl::run_mpi and tcp_impl::run_master).  *)
(***************************************************************************)
Min(a, b) == IF a < b THEN a ELSE b

\* Variant: the range starts at sqrt_limit itself.
range_start_at_root(sqrt_limit) == sqrt_limit

\* `let range_start = sqrt_limit + 1;`
range_start(sqrt_limit) == sqrt_limit + 1

\* `let range_size = limit - sqrt_limit;`
range_size(limit, sqrt_limit) == limit - sqrt_limit

\* Variant: the division rounds down.
segment_size_floor(size, n) == size \div n

\* `let segment_size = (range_size + n - 1) / n;`
segment_size(size, n) == (size + n - 1) \div n

\* Variant: the first share is that of id 1.
seg_low_one_based(start, id, seg_size) == start + (id - 1) * seg_size

\* `let seg_low = range_start + (thread_id as u64 * segment_size);`
seg_low(start, id, seg_size) == start + id * seg_size

\* Variant: the upper end is not clamped to the limit.
seg_high_unclamped(low, seg_size, limit) == low + seg_size - 1

\* Variant: the upper end is the next segment's first number.
seg_high_inclusive_next(low, seg_size, limit) == Min(low + seg_size, limit)

\* `let seg_high = std::cmp::min(seg_low + segment_size - 1, limit);`
seg_high(low, seg_size, limit) == Min(low + seg_size - 1, limit)

(***************************************************************************)
(* State.                                                                  *)
(***************************************************************************)
VARIABLES
    fn,            \* unit call: name of the pure function under call
    args,          \* unit call: its arguments
    out,           \* unit call: [done, val], val the return value once done
    strategy,      \* "thread" | "tcp" | "mpi" | "single"; "none" in a unit call
    limit,         \* args.limit
    nworkers,      \* num_threads / args.workers / world.size()
    mpc,           \* position of the orchestrator (main thread / TCP master)
    idx,           \* index of the orchestrator's current loop
    base_primes,   \* the orchestrator's base_primes
    assigned,      \* history: the ranges computed so far, [id, low, high]
    ret,           \* what the orchestrator returned: [kind |-> "none"|"ok"|"err", ...]
    main_out,      \* how main ended: "running" | "printed" | "exit1" | "panic"
    base_sieve_calls,  \* history: the orchestrator's calls of simple_sieve(sqrt_limit)
    thr,           \* in-process: per thread_id its position and locals
    handles,       \* in-process: thread ids of the spawned threads, in spawn order
    results,       \* in-process: Mutex<Vec<Vec<u64>>>, slot thread_id + 1
    metrics,       \* in-process: Mutex<Vec<(u64, u64, usize)>>
    results_lock,  \* in-process: holder of the results mutex, or Free
    metrics_lock,  \* in-process: holder of the metrics mutex, or Free
    launched,      \* socket: number of worker processes started (ids 1..launched)
    wk,            \* socket: per worker process its position and locals
    conn,          \* socket: per worker its TcpStream: bytes in flight each way, up
    backlog,       \* socket: connections made and not yet accepted, oldest first
    workers,       \* socket: the master's Vec<TcpStream>, in accept order
    node_counts,   \* socket: the master's node_counts
    master_segment_size,  \* socket: the master's segment_size, Unset before line 316
    rk,            \* collective: per rank its position, locals and return value
    all_counts,    \* collective: rank 0's gather buffer
    gathered,      \* collective: ranks whose count has reached the gather
    policy,        \* scheduler-sim: the policy of the run_with_policy call
    iterations,    \* scheduler-sim: iterations
    barrier,       \* scheduler-sim: the Barrier: [count, generation_id]
    errors,        \* scheduler-sim: main's errors vector
    warning        \* scheduler-sim: what the `Warning:` line printed, or "none"

fnVars == <<fn, args, out>>

runVars == <<strategy, limit, nworkers>>

orchVars == <<mpc, idx, base_primes, assigned, ret, main_out, base_sieve_calls>>

thrVars == <<thr, handles, results, metrics, results_lock, metrics_lock>>

tcpVars == <<launched, wk, conn, backlog, workers, node_counts, master_segment_size>>

mpiVars == <<rk, all_counts, gathered>>

schedVars == <<policy, iterations, barrier, errors, warning>>

vars == <<fnVars, runVars, orchVars, thrVars, tcpVars, mpiVars, schedVars>>

Free == -1

Unset == -1

NoRet == [kind |-> "none"]

\* primes-mpi main, socket mode: `match tcp_impl::run_master(&args)`; Ok
\* prints the result, Err reports "Master error" and exits with status 1.
main_tcp(r) == IF r.kind = "ok" THEN "printed" ELSE "exit1"

\* The variant that prints whatever run_mpi returned.
PrintsAnyResult(result) == TRUE

\* primes-mpi main, collective mode: `if result.nodes > 0`.
PrintsResult(result) == result.nodes > 0

\* primes-mpi main, collective mode, on Ok(result): prints it or returns
\* silently.
main_mpi(result) == IF PrintsResult(result) THEN "printed" ELSE "silent"

NoArgs == [limit |-> 0, low |-> 0, high |-> 0, base_primes |-> <<>>]

NoCall ==
    /\ fn = "none"
    /\ args = NoArgs
    /\ out = [done |-> FALSE, val |-> <<>>]

NoThread == [pc |-> "unspawned", seg_low |-> 0, seg_high |-> 0, segment_primes |-> <<>>]

ThreadIds == 0..(nworkers - 1)

NoThreads ==
    /\ thr = <<>>
    /\ handles = <<>>
    /\ results = <<>>
    /\ metrics = <<>>
    /\ results_lock = Free
    /\ metrics_lock = Free

NoTcp ==
    /\ launched = 0
    /\ wk = <<>>
    /\ conn = <<>>
    /\ backlog = <<>>
    /\ workers = <<>>
    /\ node_counts = <<>>
    /\ master_segment_size = Unset

NoMpi ==
    /\ rk = <<>>
    /\ all_counts = <<>>
    /\ gathered = {}

NoSched ==
    /\ policy = "none"
    /\ iterations = 0
    /\ barrier = <<>>
    /\ errors = <<>>
    /\ warning = "none"

NoRun ==
    /\ strategy = "none"
    /\ limit = 0
    /\ nworkers = 0
    /\ mpc = "none"
    /\ idx = 0
    /\ base_primes = <<>>
    /\ assigned = {}
    /\ ret = NoRet
    /\ main_out = "running"
    /\ base_sieve_calls = 0
    /\ NoThreads
    /\ NoTcp
    /\ NoMpi

(***************************************************************************)
(* Calls of the pure functions on bounded inputs.                          *)
(***************************************************************************)
\* u64 values that exercise one, two, three, four bytes of the encoding
WireValues == {0, 1, 255, 256, 65537, 16777221, 2147483647}

RECURSIVE SeqsUpTo(_, _)
SeqsUpTo(S, n) ==
    IF n = 0 THEN {<<>>}
    ELSE LET shorter == SeqsUpTo(S, n - 1)
         IN  shorter \cup {Append(s, x) : s \in shorter, x \in S}

SieveNames == {"sieve_of_eratosthenes", "simple_sieve", "calculate_primes"}

InitFn ==
    /\ NoSched
    /\ NoRun
    /\ out = [done |-> FALSE, val |-> <<>>]
    /\ \/ /\ fn \in SieveNames
          /\ \E l \in 0..MaxFnLimit : args = [NoArgs EXCEPT !.limit = l]
       \/ /\ fn = "sieve_segment"
          /\ \E lo \in 0..MaxHigh, hi \in 0..MaxHigh,
                ps \in SUBSET PrimesIn(2, MaxBase) :
                args = [NoArgs EXCEPT !.low = lo, !.high = hi,
                                      !.base_primes = SortedSeq(ps)]
       \/ /\ fn = "work_round_trip"
          /\ \E lo \in WireValues, hi \in WireValues,
                ps \in SeqsUpTo(WireValues, MaxPrimesLen) :
                args = [NoArgs EXCEPT !.low = lo, !.high = hi, !.base_primes = ps]

CallSieve ==
    /\ ~ out.done
    /\ fn \in SieveNames
    /\ out' = [done |-> TRUE,
               val |-> CASE fn = "sieve_of_eratosthenes" -> sieve_of_eratosthenes(args.limit)
                         [] fn = "simple_sieve" -> simple_sieve(args.limit)
                         [] fn = "calculate_primes" -> calculate_primes(args.limit)]
    /\ UNCHANGED <<fn, args, runVars, schedVars, orchVars, thrVars, tcpVars, mpiVars>>

CallSegment ==
    /\ ~ out.done
    /\ fn = "sieve_segment"
    /\ out' = [done |-> TRUE,
               val |-> sieve_segment(args.low, args.high, args.base_primes)]
    /\ UNCHANGED <<fn, args, runVars, schedVars, orchVars, thrVars, tcpVars, mpiVars>>

CallRoundTrip ==
    /\ ~ out.done
    /\ fn = "work_round_trip"
    /\ out' = [done |-> TRUE,
               val |-> deserialize_work(serialize_work(args.low, args.high,
                                                        args.base_primes))]
    /\ UNCHANGED <<fn, args, runVars, schedVars, orchVars, thrVars, tcpVars, mpiVars>>

NextFn == CallSieve \/ CallSegment \/ CallRoundTrip

SpecFn == InitFn /\ [][NextFn]_vars

(***************************************************************************)
(* In-process strategy: segmented_sieve_parallel(limit, num_threads) of    *)
(* apps/primes-multithread.  main passes num_threads >= 1 (a thread count  *)
(* of 0 is replaced by 1).                                                 *)
(***************************************************************************)
InitThread ==
    /\ NoSched
    /\ NoCall
    /\ strategy = "thread"
    /\ limit \in 0..MaxLimit
    /\ nworkers \in 1..MaxWorkers
    /\ mpc = "start"
    /\ idx = 0
    /\ base_primes = <<>>
    /\ assigned = {}
    /\ ret = NoRet
    /\ main_out = "running"
    /\ base_sieve_calls = 0
    /\ NoThreads
    /\ NoTcp
    /\ NoMpi

\* Variant: the primes go to the first slot still empty (arrival order).
StoreResultFirstFree(slots, thread_id, segment_primes) ==
    LET free == {i \in 1..Len(slots) : slots[i] = <<>>}
        first == CHOOSE i \in free : \A j \in free : i <= j
    IN  [slots EXCEPT ![first] = segment_primes]

\* `results_guard[thread_id] = segment_primes;`
StoreResult(slots, thread_id, segment_primes) ==
    [slots EXCEPT ![thread_id + 1] = segment_primes]

\* Variant: the result of join is dropped.
JoinIgnoresPanic(thread_pc) == FALSE

\* `handle.join().expect("Thread panicked")`: TRUE when the join panics
JoinPanics(thread_pc) == thread_pc = "panicked"

\* Lines 177-213: early returns, base primes, the shared buffers.
ThreadStart ==
    /\ strategy = "thread"
    /\ base_sieve_calls' = IF limit < 2 THEN base_sieve_calls ELSE base_sieve_calls + 1
    /\ mpc = "start"
    /\ LET sqrt_limit == sqrt_u64(limit)
       IN  IF limit < 2
           THEN /\ ret' = [kind |-> "ok", primes |-> <<>>, segments |-> <<>>]
                /\ main_out' = "printed"
                /\ mpc' = "done"
                /\ UNCHANGED <<base_primes, thr, results>>
           ELSE /\ base_primes' = simple_sieve(sqrt_limit)
                /\ IF sqrt_limit >= limit
                   THEN /\ ret' = [kind |-> "ok", primes |-> base_primes',
                                   segments |-> <<>>]
                        /\ main_out' = "printed"
                        /\ mpc' = "done"
                        /\ UNCHANGED <<thr, results>>
                   ELSE /\ results' = [i \in 1..nworkers |-> <<>>]
                        /\ thr' = [t \in ThreadIds |-> NoThread]
                        /\ mpc' = "spawn"
                        /\ UNCHANGED <<ret, main_out>>
    /\ UNCHANGED <<idx, assigned, handles, metrics, results_lock, metrics_lock>>
    /\ UNCHANGED <<fnVars, runVars, schedVars, tcpVars, mpiVars>>

\* One iteration of `for thread_id in 0..num_threads` (lines 215-252).
ThreadSpawn ==
    /\ strategy = "thread"
    /\ UNCHANGED base_sieve_calls
    /\ mpc = "spawn"
    /\ LET sqrt_limit == sqrt_u64(limit)
           seg_size == segment_size(range_size(limit, sqrt_limit), nworkers)
           low == seg_low(range_start(sqrt_limit), idx, seg_size)
           high == seg_high(low, seg_size, limit)
       IN  /\ assigned' = assigned \cup {[id |-> idx, low |-> low, high |-> high]}
           /\ IF low > limit
              THEN UNCHANGED <<thr, handles>>
              ELSE /\ thr' = [thr EXCEPT ![idx] = [NoThread EXCEPT !.pc = "sieve",
                                                       !.seg_low = low, !.seg_high = high]]
                   /\ handles' = Append(handles, idx)
    /\ IF idx + 1 < nworkers
       THEN idx' = idx + 1 /\ mpc' = "spawn"
       ELSE idx' = 0 /\ mpc' = "join"
    /\ UNCHANGED <<base_primes, ret, main_out, results, metrics, results_lock,
                   metrics_lock>>
    /\ UNCHANGED <<fnVars, runVars, schedVars, tcpVars, mpiVars>>

\* The process is alive until main returns or panics.
ThreadsAlive == strategy = "thread" /\ mpc \in {"spawn", "join"}

\* `let segment_primes = sieve_segment(seg_low, seg_high, &base_primes);`
WorkerSieve(t) ==
    /\ ThreadsAlive
    /\ thr[t].pc = "sieve"
    /\ thr' = [thr EXCEPT ![t].pc = "lock_results",
                          ![t].segment_primes =
                              sieve_segment(thr[t].seg_low, thr[t].seg_high, base_primes)]
    /\ UNCHANGED <<handles, results, metrics, results_lock, metrics_lock>>
    /\ UNCHANGED <<fnVars, runVars, schedVars, tcpVars, mpiVars, orchVars>>

\* A computational panic inside the worker closure, before it takes a lock.
WorkerPanic(t) ==
    /\ ThreadsAlive
    /\ thr[t].pc = "sieve"
    /\ thr' = [thr EXCEPT ![t].pc = "panicked"]
    /\ UNCHANGED <<handles, results, metrics, results_lock, metrics_lock>>
    /\ UNCHANGED <<fnVars, runVars, schedVars, tcpVars, mpiVars, orchVars>>

\* Variant: lock returns whether or not the mutex is held.
lock_without_waiting(holder) == TRUE

\* `Mutex::lock()` returns once no thread holds the mutex.
lock_returns(holder) == holder = Free

\* `let mut results_guard = results.lock().unwrap();`
WorkerLockResults(t) ==
    /\ ThreadsAlive
    /\ thr[t].pc = "lock_results"
    /\ lock_returns(results_lock)
    /\ results_lock' = t
    /\ thr' = [thr EXCEPT ![t].pc = "store_results"]
    /\ UNCHANGED <<handles, results, metrics, metrics_lock>>
    /\ UNCHANGED <<fnVars, runVars, schedVars, tcpVars, mpiVars, orchVars>>

\* `results_guard[thread_id] = segment_primes;` and the guard's drop
WorkerStoreResults(t) ==
    /\ ThreadsAlive
    /\ thr[t].pc = "store_results"
    /\ results' = StoreResult(results, t, thr[t].segment_primes)
    /\ results_lock' = Free
    /\ thr' = [thr EXCEPT ![t].pc = "lock_metrics"]
    /\ UNCHANGED <<handles, metrics, metrics_lock>>
    /\ UNCHANGED <<fnVars, runVars, schedVars, tcpVars, mpiVars, orchVars>>

\* `let mut metrics_guard = metrics.lock().unwrap();`
WorkerLockMetrics(t) ==
    /\ ThreadsAlive
    /\ thr[t].pc = "lock_metrics"
    /\ lock_returns(metrics_lock)
    /\ metrics_lock' = t
    /\ thr' = [thr EXCEPT ![t].pc = "store_metrics"]
    /\ UNCHANGED <<handles, results, metrics, results_lock>>
    /\ UNCHANGED <<fnVars, runVars, schedVars, tcpVars, mpiVars, orchVars>>

\* `metrics_guard.push((seg_low, seg_high, prime_count));` and the guard's drop
WorkerStoreMetrics(t) ==
    /\ ThreadsAlive
    /\ thr[t].pc = "store_metrics"
    /\ metrics' = Append(metrics, <<thr[t].seg_low, thr[t].seg_high,
                                    Len(thr[t].segment_primes)>>)
    /\ metrics_lock' = Free
    /\ thr' = [thr EXCEPT ![t].pc = "done"]
    /\ UNCHANGED <<handles, results, results_lock>>
    /\ UNCHANGED <<fnVars, runVars, schedVars, tcpVars, mpiVars, orchVars>>

\* Variant: join returns whether or not the thread has ended.
join_without_waiting(thread_pc) == TRUE

\* `handle.join()` returns once the thread has ended, normally or not.
join_returns(thread_pc) == thread_pc \in {"done", "panicked"}

\* One iteration of `for handle in handles { handle.join().expect(..) }`.
ThreadJoin ==
    /\ strategy = "thread"
    /\ UNCHANGED base_sieve_calls
    /\ mpc = "join"
    /\ idx < Len(handles)
    /\ LET t == handles[idx + 1]
       IN  /\ join_returns(thr[t].pc)
           /\ IF JoinPanics(thr[t].pc)
              THEN /\ mpc' = "panicked"
                   /\ ret' = [kind |-> "err", error |-> "Thread panicked"]
                   /\ main_out' = "panic"
                   /\ UNCHANGED idx
              ELSE /\ idx' = idx + 1
                   /\ UNCHANGED <<mpc, ret, main_out>>
    /\ UNCHANGED <<base_primes, assigned>>
    /\ UNCHANGED <<fnVars, runVars, schedVars, tcpVars, mpiVars, thrVars>>

\* Variant: the merged list starts empty.
all_primes_start_empty(sqrt_limit) == <<>>

\* `let mut all_primes = simple_sieve(sqrt_limit); // Start with base primes`
all_primes_start(sqrt_limit) == simple_sieve(sqrt_limit)

\* Lines 259-274: base primes, then every slot of results in slot order.
ThreadCollect ==
    /\ strategy = "thread"
    /\ base_sieve_calls' = base_sieve_calls + 1
    /\ mpc = "join"
    /\ idx = Len(handles)
    /\ results_lock = Free
    /\ metrics_lock = Free
    /\ ret' = [kind |-> "ok",
               primes |-> all_primes_start(sqrt_u64(limit)) \o Flatten(results),
               segments |-> metrics]
    /\ main_out' = "printed"
    /\ mpc' = "done"
    /\ UNCHANGED <<idx, base_primes, assigned>>
    /\ UNCHANGED <<fnVars, runVars, schedVars, tcpVars, mpiVars, thrVars>>

NextThread ==
    \/ ThreadStart
    \/ ThreadSpawn
    \/ \E t \in ThreadIds : WorkerSieve(t)
    \/ \E t \in ThreadIds : WorkerPanic(t)
    \/ \E t \in ThreadIds : WorkerLockResults(t)
    \/ \E t \in ThreadIds : WorkerStoreResults(t)
    \/ \E t \in ThreadIds : WorkerLockMetrics(t)
    \/ \E t \in ThreadIds : WorkerStoreMetrics(t)
    \/ ThreadJoin
    \/ ThreadCollect

SpecThread == InitThread /\ [][NextThread]_vars

(***************************************************************************)
(* Socket strategy: tcp_impl::run_master and tcp_impl::run_worker of       *)
(* apps/primes-mpi.  Each worker is a separate process; the environment    *)
(* decides how many are started, whether bind or accept fail and whether   *)
(* an established connection breaks.                                       *)
(***************************************************************************)
WorkerIds == 1..launched

NoWorker == [pc |-> "connect", len |-> 0, low |-> 0, high |-> 0,
             base_primes |-> <<>>, count |-> 0]

\* c2w_written, w2c_written: history, the bytes written so far each way
NoConn == [c2w |-> <<>>, w2c |-> <<>>, up |-> FALSE, made |-> FALSE,
           c2w_written |-> 0, w2c_written |-> 0]

\* args.limit of a socket run: no range at all, no base prime, the largest
\* limit and the one below it (a last share that is clamped).
TcpLimits == {0, 3, MaxTcpLimit - 1, MaxTcpLimit}

InitTcp ==
    /\ NoSched
    /\ NoCall
    /\ strategy = "tcp"
    /\ limit \in TcpLimits
    /\ nworkers \in 0..MaxTcpWorkers
    /\ mpc = "start"
    /\ idx = 0
    /\ base_primes = <<>>
    /\ assigned = {}
    /\ ret = NoRet
    /\ main_out = "running"
    /\ base_sieve_calls = 0
    /\ NoThreads
    /\ launched \in 0..MaxTcpWorkers
    /\ wk = [w \in WorkerIds |-> NoWorker]
    /\ conn = [w \in WorkerIds |-> NoConn]
    /\ backlog = <<>>
    /\ workers = <<>>
    /\ node_counts = <<>>
    /\ master_segment_size = Unset
    /\ NoMpi

\* The listener exists from the bind until run_master returns.
Listening == mpc \in {"accept", "divide", "send", "own", "recv", "finish"}

MasterExited == mpc \in {"done", "err"}

WorkerExited(w) == wk[w].pc \in {"done", "err"}

\* Variant: the loop runs one iteration short.
AcceptLoopOneShort(accepted) ==
    IF accepted + 1 < nworkers THEN "accept" ELSE "divide"

\* `for i in 0..args.workers { listener.accept()?; workers.push(stream); }`
\* leaves the loop after the last of args.workers iterations.
AcceptLoop(accepted) ==
    IF accepted < nworkers THEN "accept" ELSE "divide"

\* Lines 282-293: the base primes are computed before the listener is bound.
MasterStart ==
    /\ strategy = "tcp"
    /\ base_sieve_calls' = base_sieve_calls + 1
    /\ mpc = "start"
    /\ base_primes' = simple_sieve(sqrt_u64(limit))
    /\ mpc' = "bind"
    /\ UNCHANGED <<idx, assigned, ret, main_out>>
    /\ UNCHANGED <<fnVars, runVars, schedVars, thrVars, tcpVars, mpiVars>>

\* `TcpListener::bind(&args.master_addr).map_err(..)?`
MasterBind ==
    /\ strategy = "tcp"
    /\ UNCHANGED base_sieve_calls
    /\ mpc = "bind"
    /\ \/ /\ mpc' = AcceptLoop(0)
          /\ UNCHANGED <<ret, main_out>>
       \/ /\ mpc' = "err"
          /\ ret' = [kind |-> "err", error |-> "Failed to bind"]
          /\ main_out' = main_tcp(ret')
    /\ UNCHANGED <<idx, base_primes, assigned>>
    /\ UNCHANGED <<fnVars, runVars, schedVars, thrVars, tcpVars, mpiVars>>

\* One iteration of the accept loop (lines 304-310): blocks until a
\* connection is pending.
MasterAccept ==
    /\ strategy = "tcp"
    /\ UNCHANGED base_sieve_calls
    /\ mpc = "accept"
    /\ backlog # <<>>
    /\ workers' = Append(workers, Head(backlog))
    /\ backlog' = Tail(backlog)
    /\ mpc' = AcceptLoop(Len(workers'))
    /\ UNCHANGED <<idx, base_primes, assigned, ret, main_out>>
    /\ UNCHANGED <<launched, wk, conn, node_counts, master_segment_size>>
    /\ UNCHANGED <<fnVars, runVars, schedVars, thrVars, mpiVars>>

\* `listener.accept().map_err(|e| format!("Accept failed: {}", e))?`
MasterAcceptFail ==
    /\ strategy = "tcp"
    /\ UNCHANGED base_sieve_calls
    /\ mpc = "accept"
    /\ mpc' = "err"
    /\ ret' = [kind |-> "err", error |-> "Accept failed"]
    /\ main_out' = main_tcp(ret')
    /\ UNCHANGED <<idx, base_primes, assigned>>
    /\ UNCHANGED <<fnVars, runVars, schedVars, thrVars, tcpVars, mpiVars>>

\* Lines 312-316: total_nodes, range_start, range_size, segment_size.
total_nodes == nworkers + 1

MasterDivide ==
    /\ strategy = "tcp"
    /\ UNCHANGED base_sieve_calls
    /\ mpc = "divide"
    /\ master_segment_size' =
           segment_size(range_size(limit, sqrt_u64(limit)), total_nodes)
    /\ idx' = 0
    /\ mpc' = IF nworkers > 0 THEN "send" ELSE "own"
    /\ UNCHANGED <<base_primes, assigned, ret, main_out>>
    /\ UNCHANGED <<launched, wk, conn, backlog, workers, node_counts>>
    /\ UNCHANGED <<fnVars, runVars, schedVars, thrVars, mpiVars>>

\* Variant: the length counts its own 4 bytes too.
len_prefix_with_header(data) == Len(data) + 4

\* `let len = data.len() as u32` (line 329)
len_prefix(data) == Len(data)

\* Variant: the work message is written a second time.
work_frame_resent(len, data) ==
    to_le_bytes(len, 4) \o data \o to_le_bytes(len, 4) \o data

\* `worker.write_all(&len.to_le_bytes())` and `worker.write_all(&data)`
\* (lines 331-336)
work_frame(len, data) == to_le_bytes(len, 4) \o data

\* One iteration of the send loop (lines 319-337) on a healthy connection:
\* the 4-byte length, then the serialized work.
MasterSend ==
    /\ strategy = "tcp"
    /\ UNCHANGED base_sieve_calls
    /\ mpc = "send"
    /\ LET w == workers[idx + 1]
           worker_id == idx + 1
           low == seg_low(range_start(sqrt_u64(limit)), worker_id, master_segment_size)
           high == seg_high(low, master_segment_size, limit)
           data == serialize_work(low, high, base_primes)
           len == len_prefix(data)
       IN  /\ conn[w].up
           /\ conn' = [conn EXCEPT ![w].c2w = @ \o work_frame(len, data),
                                   ![w].c2w_written = @ + Len(work_frame(len, data))]
           /\ assigned' = assigned \cup {[id |-> worker_id, low |-> low, high |-> high]}
    /\ IF idx + 1 < nworkers
       THEN idx' = idx + 1 /\ mpc' = "send"
       ELSE idx' = 0 /\ mpc' = "own"
    /\ UNCHANGED <<base_primes, ret, main_out>>
    /\ UNCHANGED <<launched, wk, backlog, workers, node_counts, master_segment_size>>
    /\ UNCHANGED <<fnVars, runVars, schedVars, thrVars, mpiVars>>

\* `worker.write_all(..).map_err(|e| format!("Send failed: {}", e))?` on a
\* broken connection.
MasterSendFail ==
    /\ strategy = "tcp"
    /\ UNCHANGED base_sieve_calls
    /\ mpc = "send"
    /\ ~ conn[workers[idx + 1]].up
    /\ mpc' = "err"
    /\ ret' = [kind |-> "err", error |-> "Send failed"]
    /\ main_out' = main_tcp(ret')
    /\ UNCHANGED <<idx, base_primes, assigned>>
    /\ UNCHANGED <<fnVars, runVars, schedVars, thrVars, tcpVars, mpiVars>>

\* Lines 339-350: the master sieves share 0 and opens node_counts with it.
MasterOwn ==
    /\ strategy = "tcp"
    /\ UNCHANGED base_sieve_calls
    /\ mpc = "own"
    /\ LET master_low == range_start(sqrt_u64(limit))
           master_high == seg_high(master_low, master_segment_size, limit)
           master_primes == sieve_segment(master_low, master_high, base_primes)
       IN  /\ node_counts' = <<Len(master_primes)>>
           /\ assigned' = assigned \cup {[id |-> 0, low |-> master_low,
                                          high |-> master_high]}
    /\ idx' = 0
    /\ mpc' = IF nworkers > 0 THEN "recv" ELSE "finish"
    /\ UNCHANGED <<base_primes, ret, main_out>>
    /\ UNCHANGED <<launched, wk, conn, backlog, workers, master_segment_size>>
    /\ UNCHANGED <<fnVars, runVars, schedVars, thrVars, mpiVars>>

\* Variant: the connections are read last accepted first.
collect_order_reversed(streams, i) == streams[Len(streams) - i]

\* `for (i, worker) in workers.iter_mut().enumerate()` (line 352): the
\* connection read in iteration i.
collect_order(streams, i) == streams[i + 1]

\* One iteration of the collect loop (lines 352-364): read_exact of 4 bytes.
MasterRecv ==
    /\ strategy = "tcp"
    /\ UNCHANGED base_sieve_calls
    /\ mpc = "recv"
    /\ LET w == collect_order(workers, idx)
       IN  /\ Len(conn[w].w2c) >= 4
           /\ node_counts' = Append(node_counts, from_le_bytes(SubSeq(conn[w].w2c, 1, 4)))
           /\ conn' = [conn EXCEPT ![w].w2c = SubSeq(@, 5, Len(@))]
    /\ IF idx + 1 < nworkers
       THEN idx' = idx + 1 /\ mpc' = "recv"
       ELSE idx' = 0 /\ mpc' = "finish"
    /\ UNCHANGED <<base_primes, assigned, ret, main_out>>
    /\ UNCHANGED <<launched, wk, backlog, workers, master_segment_size>>
    /\ UNCHANGED <<fnVars, runVars, schedVars, thrVars, mpiVars>>

\* The read fails: the connection broke, or the worker exited without
\* having written its 4 bytes.
MasterRecvFail ==
    /\ strategy = "tcp"
    /\ UNCHANGED base_sieve_calls
    /\ mpc = "recv"
    /\ LET w == collect_order(workers, idx)
       IN  /\ Len(conn[w].w2c) < 4
           /\ ~ conn[w].up \/ WorkerExited(w)
    /\ mpc' = "err"
    /\ ret' = [kind |-> "err", error |-> "Read failed"]
    /\ main_out' = main_tcp(ret')
    /\ UNCHANGED <<idx, base_primes, assigned>>
    /\ UNCHANGED <<fnVars, runVars, schedVars, thrVars, tcpVars, mpiVars>>

\* Variant: the base primes are left out of the total.
MasterResultNoBase(base, counts) ==
    [total_primes |-> SumSeq(counts), nodes |-> total_nodes,
     node_counts |-> counts, base_prime_count |-> Len(base)]

\* `total_primes`/`DistributedResult` of run_master (lines 366-376)
MasterResult(base, counts) ==
    [total_primes |-> Len(base) + SumSeq(counts), nodes |-> total_nodes,
     node_counts |-> counts, base_prime_count |-> Len(base)]

MasterFinish ==
    /\ strategy = "tcp"
    /\ UNCHANGED base_sieve_calls
    /\ mpc = "finish"
    /\ ret' = [kind |-> "ok", result |-> MasterResult(base_primes, node_counts)]
    /\ main_out' = main_tcp(ret')
    /\ mpc' = "done"
    /\ UNCHANGED <<idx, base_primes, assigned>>
    /\ UNCHANGED <<fnVars, runVars, schedVars, thrVars, tcpVars, mpiVars>>

\* `TcpStream::connect(&args.master_addr)`: succeeds while the master
\* listens, is refused otherwise.
WorkerConnect(w) ==
    /\ strategy = "tcp"
    /\ wk[w].pc = "connect"
    /\ IF Listening
       THEN /\ conn' = [conn EXCEPT ![w] = [NoConn EXCEPT !.up = TRUE, !.made = TRUE]]
            /\ backlog' = Append(backlog, w)
            /\ wk' = [wk EXCEPT ![w].pc = "read_len"]
       ELSE /\ wk' = [wk EXCEPT ![w].pc = "err"]
            /\ UNCHANGED <<conn, backlog>>
    /\ UNCHANGED <<launched, workers, node_counts, master_segment_size>>
    /\ UNCHANGED <<fnVars, runVars, schedVars, orchVars, thrVars, mpiVars>>

\* `stream.read_exact(&mut len_buf)` (lines 389-393)
WorkerReadLen(w) ==
    /\ strategy = "tcp"
    /\ wk[w].pc = "read_len"
    /\ Len(conn[w].c2w) >= 4
    /\ wk' = [wk EXCEPT ![w].pc = "read_data",
                        ![w].len = from_le_bytes(SubSeq(conn[w].c2w, 1, 4))]
    /\ conn' = [conn EXCEPT ![w].c2w = SubSeq(@, 5, Len(@))]
    /\ UNCHANGED <<launched, backlog, workers, node_counts, master_segment_size>>
    /\ UNCHANGED <<fnVars, runVars, schedVars, orchVars, thrVars, mpiVars>>

\* `stream.read_exact(&mut data)` and `deserialize_work(&data)` (lines 395-400)
WorkerReadData(w) ==
    /\ strategy = "tcp"
    /\ wk[w].pc = "read_data"
    /\ Len(conn[w].c2w) >= wk[w].len
    /\ LET work == deserialize_work(SubSeq(conn[w].c2w, 1, wk[w].len))
       IN  wk' = [wk EXCEPT ![w].pc = "sieve", ![w].low = work[1],
                            ![w].high = work[2], ![w].base_primes = work[3]]
    /\ conn' = [conn EXCEPT ![w].c2w = SubSeq(@, wk[w].len + 1, Len(@))]
    /\ UNCHANGED <<launched, backlog, workers, node_counts, master_segment_size>>
    /\ UNCHANGED <<fnVars, runVars, schedVars, orchVars, thrVars, mpiVars>>

\* A read of the worker fails: the connection broke, or the master exited
\* and the bytes wanted are not there.
WorkerReadFail(w) ==
    /\ strategy = "tcp"
    /\ \/ wk[w].pc = "read_len" /\ Len(conn[w].c2w) < 4
       \/ wk[w].pc = "read_data" /\ Len(conn[w].c2w) < wk[w].len
    /\ ~ conn[w].up \/ MasterExited
    /\ wk' = [wk EXCEPT ![w].pc = "err"]
    /\ UNCHANGED <<launched, conn, backlog, workers, node_counts, master_segment_size>>
    /\ UNCHANGED <<fnVars, runVars, schedVars, orchVars, thrVars, mpiVars>>

\* Variant: the count goes out as 2 bytes.
result_bytes_short(count) == to_le_bytes(count, 2)

\* `(count as u32).to_le_bytes()` (line 415)
result_bytes(count) == to_le_bytes(count, 4)

\* `sieve_segment(low, high, &base_primes)` and the 4-byte result (lines
\* 406-421).  Writing to a connection whose master has exited may or may
\* not report an error.
WorkerSieveSend(w) ==
    /\ strategy = "tcp"
    /\ wk[w].pc = "sieve"
    /\ LET count == Len(sieve_segment(wk[w].low, wk[w].high, wk[w].base_primes))
       IN  \/ /\ conn[w].up
              /\ conn' = [conn EXCEPT ![w].w2c = @ \o result_bytes(count),
                                      ![w].w2c_written = @ + Len(result_bytes(count))]
              /\ wk' = [wk EXCEPT ![w].pc = "done", ![w].count = count]
           \/ /\ ~ conn[w].up \/ MasterExited
              /\ wk' = [wk EXCEPT ![w].pc = "err", ![w].count = count]
              /\ UNCHANGED conn
    /\ UNCHANGED <<launched, backlog, workers, node_counts, master_segment_size>>
    /\ UNCHANGED <<fnVars, runVars, schedVars, orchVars, thrVars, mpiVars>>

\* The environment breaks an established connection; bytes in flight are lost.
BreakConn(w) ==
    /\ strategy = "tcp"
    /\ conn[w].up
    /\ ~ MasterExited
    /\ conn' = [conn EXCEPT ![w].up = FALSE, ![w].c2w = <<>>, ![w].w2c = <<>>]
    /\ UNCHANGED <<launched, wk, backlog, workers, node_counts, master_segment_size>>
    /\ UNCHANGED <<fnVars, runVars, schedVars, orchVars, thrVars, mpiVars>>

NextTcp ==
    \/ MasterStart
    \/ MasterBind
    \/ MasterAccept
    \/ MasterAcceptFail
    \/ MasterDivide
    \/ MasterSend
    \/ MasterSendFail
    \/ MasterOwn
    \/ MasterRecv
    \/ MasterRecvFail
    \/ MasterFinish
    \/ \E w \in WorkerIds : WorkerConnect(w)
    \/ \E w \in WorkerIds : WorkerReadLen(w)
    \/ \E w \in WorkerIds : WorkerReadData(w)
    \/ \E w \in WorkerIds : WorkerReadFail(w)
    \/ \E w \in WorkerIds : WorkerSieveSend(w)
    \/ \E w \in WorkerIds : BreakConn(w)

SpecTcp == InitTcp /\ [][NextTcp]_vars

\* A socket run in which as many worker processes are started as the
\* master waits for, on the limit 0 (every share empty) and on the limit 3.
InitTcpAllLaunched ==
    /\ InitTcp
    /\ launched = nworkers
    /\ limit \in {0, 3}

\* What run_master does next, whatever its position; the failures of the
\* environment (accept failing) are not the program's steps.
MasterProgram ==
    \/ MasterStart
    \/ MasterBind
    \/ MasterAccept
    \/ MasterDivide
    \/ MasterSend
    \/ MasterSendFail
    \/ MasterOwn
    \/ MasterRecv
    \/ MasterRecvFail
    \/ MasterFinish

\* What run_worker does next in worker process w.
WorkerProgram(w) ==
    /\ w \in WorkerIds
    /\ \/ WorkerConnect(w)
       \/ WorkerReadLen(w)
       \/ WorkerReadData(w)
       \/ WorkerReadFail(w)
       \/ WorkerSieveSend(w)

\* The master and the workers are processes of their own: each keeps
\* running while its next step is possible.  A blocking accept or read_exact
\* is a step that is possible once the connection or the bytes are there,
\* and one that fails once the peer is gone.  No fairness for the
\* environment: accept failing, a connection breaking.
FairnessTcp ==
    /\ WF_vars(MasterProgram)
    /\ \A w \in 1..MaxTcpWorkers : WF_vars(WorkerProgram(w))

FairTcp == InitTcpAllLaunched /\ [][NextTcp]_vars /\ FairnessTcp

(***************************************************************************)
(* Single-node path: run_single_node, reached from main when neither the   *)
(* worker role nor --tcp is asked for and the collective strategy is not   *)
(* built in or fails to initialise.                                        *)
(***************************************************************************)
\* Variant: the single-node result reports the base primes apart.
run_single_node_split(l) ==
    LET count == Len(simple_sieve(l))
    IN  [total_primes |-> count, nodes |-> 1, node_counts |-> <<count>>,
         base_prime_count |-> Len(simple_sieve(sqrt_u64(l)))]

run_single_node(l) ==
    LET count == Len(simple_sieve(l))
    IN  [total_primes |-> count, nodes |-> 1, node_counts |-> <<count>>,
         base_prime_count |-> 0]

InitSingle ==
    /\ NoSched
    /\ NoCall
    /\ strategy = "single"
    /\ limit \in 0..MaxLimit
    /\ nworkers = 0
    /\ mpc = "start"
    /\ idx = 0
    /\ base_primes = <<>>
    /\ assigned = {}
    /\ ret = NoRet
    /\ main_out = "running"
    /\ base_sieve_calls = 0
    /\ NoThreads
    /\ NoTcp
    /\ NoMpi

\* main, lines 528-536
SingleRun ==
    /\ strategy = "single"
    /\ UNCHANGED base_sieve_calls
    /\ mpc = "start"
    /\ ret' = [kind |-> "ok", result |-> run_single_node(limit)]
    /\ main_out' = "printed"
    /\ mpc' = "done"
    /\ UNCHANGED <<idx, base_primes, assigned>>
    /\ UNCHANGED <<fnVars, runVars, schedVars, thrVars, tcpVars, mpiVars>>

NextSingle == SingleRun

(***************************************************************************)
(* Collective strategy: mpi_impl::run_mpi, one process per rank.  The      *)
(* gather is the MPI library's: a rank other than 0 hands its count over   *)
(* and returns, rank 0 returns once every rank's count has arrived.        *)
(***************************************************************************)
Ranks == 0..(nworkers - 1)

\* `DistributedResult::default()`
DefaultResult ==
    [total_primes |-> 0, nodes |-> 0, node_counts |-> <<>>, base_prime_count |-> 0]

NoRank == [pc |-> "init", base_primes |-> <<>>, my_low |-> 0, my_high |-> 0,
           local_count |-> 0, ret |-> NoRet, main_out |-> "running"]

InitMpi ==
    /\ NoSched
    /\ NoCall
    /\ strategy = "mpi"
    /\ limit \in 0..MaxLimit
    /\ nworkers \in 1..MaxWorkers
    /\ mpc = "none"
    /\ idx = 0
    /\ base_primes = <<>>
    /\ assigned = {}
    /\ ret = NoRet
    /\ main_out = "running"
    /\ base_sieve_calls = 0
    /\ NoThreads
    /\ NoTcp
    /\ rk = [r \in Ranks |-> NoRank]
    /\ all_counts = [r \in 1..nworkers |-> 0]
    /\ gathered = {}

\* `mpi::initialize().ok_or(..)?`, then lines 177-179: every rank computes
\* the base primes itself.
MpiInit(r) ==
    /\ strategy = "mpi"
    /\ rk[r].pc = "init"
    /\ rk' = [rk EXCEPT ![r].pc = "sieve",
                        ![r].base_primes = simple_sieve(sqrt_u64(limit))]
    /\ UNCHANGED <<all_counts, gathered>>
    /\ UNCHANGED <<fnVars, runVars, schedVars, orchVars, thrVars, tcpVars>>

\* Initialisation fails: main reports it and runs the single-node path
\* (lines 522-536).
MpiInitFail(r) ==
    /\ strategy = "mpi"
    /\ rk[r].pc = "init"
    /\ rk' = [rk EXCEPT ![r].pc = "single_done",
                        ![r].ret = [kind |-> "ok", result |-> run_single_node(limit)],
                        ![r].main_out = "printed"]
    /\ UNCHANGED <<all_counts, gathered>>
    /\ UNCHANGED <<fnVars, runVars, schedVars, orchVars, thrVars, tcpVars>>

\* Lines 181-203: the rank's own range and its local count.
MpiSieve(r) ==
    /\ strategy = "mpi"
    /\ UNCHANGED base_sieve_calls
    /\ rk[r].pc = "sieve"
    /\ LET sqrt_limit == sqrt_u64(limit)
           seg_size == segment_size(range_size(limit, sqrt_limit), nworkers)
           my_low == seg_low(range_start(sqrt_limit), r, seg_size)
           my_high == seg_high(my_low, seg_size, limit)
           local_primes == IF my_low <= limit
                           THEN sieve_segment(my_low, my_high, rk[r].base_primes)
                           ELSE <<>>
       IN  /\ rk' = [rk EXCEPT ![r].pc = "gather", ![r].my_low = my_low,
                               ![r].my_high = my_high,
                               ![r].local_count = Len(local_primes)]
           /\ assigned' = assigned \cup {[id |-> r, low |-> my_low, high |-> my_high]}
    /\ UNCHANGED <<mpc, idx, base_primes, ret, main_out>>
    /\ UNCHANGED <<all_counts, gathered>>
    /\ UNCHANGED <<fnVars, runVars, schedVars, thrVars, tcpVars>>

\* `world.gather_into_root(&local_count, &mut all_counts)` on a rank other
\* than 0, and its return value (lines 235-238).
MpiGatherSend(r) ==
    /\ strategy = "mpi"
    /\ r # 0
    /\ rk[r].pc = "gather"
    /\ all_counts' = [all_counts EXCEPT ![r + 1] = rk[r].local_count]
    /\ gathered' = gathered \cup {r}
    /\ rk' = [rk EXCEPT ![r].pc = "done",
                        ![r].ret = [kind |-> "ok", result |-> DefaultResult],
                        ![r].main_out = main_mpi(DefaultResult)]
    /\ UNCHANGED <<fnVars, runVars, schedVars, orchVars, thrVars, tcpVars>>

\* The gather on rank 0 and rank 0's result (lines 219-234).
MpiGatherRoot ==
    /\ strategy = "mpi"
    /\ rk[0].pc = "gather"
    /\ gathered = Ranks \ {0}
    /\ LET counts == [all_counts EXCEPT ![1] = rk[0].local_count]
           result == [total_primes |-> Len(rk[0].base_primes) + SumSeq(counts),
                      nodes |-> nworkers,
                      node_counts |-> counts,
                      base_prime_count |-> Len(rk[0].base_primes)]
       IN  /\ all_counts' = counts
           /\ rk' = [rk EXCEPT ![0].pc = "done",
                               ![0].ret = [kind |-> "ok", result |-> result],
                               ![0].main_out = main_mpi(result)]
    /\ gathered' = Ranks
    /\ UNCHANGED <<fnVars, runVars, schedVars, orchVars, thrVars, tcpVars>>

NextMpi ==
    \/ \E r \in Ranks : MpiInit(r)
    \/ \E r \in Ranks : MpiInitFail(r)
    \/ \E r \in Ranks : MpiSieve(r)
    \/ \E r \in Ranks : MpiGatherSend(r)
    \/ MpiGatherRoot

(***************************************************************************)
(* apps/scheduler-sim: run_with_policy(policy, num_threads, priority,      *)
(* limit, iterations, verbose).  num_threads is nworkers.  The durations   *)
(* of ThreadMetrics and the averages of PolicyMetrics are measurements of  *)
(* the clock and are left out; set_nice_value's result is discarded by the *)
(* code (`let _ =`).                                                       *)
(***************************************************************************)
Policies == {"SCHED_OTHER", "SCHED_FIFO", "SCHED_RR", "ALL"}

SchedLimits == {0, MaxSchedLimit}

\* `Barrier::new(..)`: nobody has arrived, first generation.
NewBarrier == [count |-> 0, generation_id |-> 0]

NoSchedThread == [pc |-> "unspawned", policy_result |-> "none", local_gen |-> 0,
                  it |-> 0, total_primes |-> 0]

InitSched ==
    /\ NoCall
    /\ strategy = "sched"
    /\ limit \in SchedLimits
    /\ nworkers \in 0..MaxSchedThreads
    /\ policy \in Policies
    /\ iterations \in 0..MaxIterations
    /\ mpc = "spawn"
    /\ idx = 0
    /\ base_primes = <<>>
    /\ assigned = {}
    /\ ret = NoRet
    /\ main_out = "running"
    /\ base_sieve_calls = 0
    /\ thr = [t \in ThreadIds |-> NoSchedThread]
    /\ handles = <<>>
    /\ results = <<>>
    /\ metrics = <<>>
    /\ results_lock = Free
    /\ metrics_lock = Free
    /\ barrier = NewBarrier
    /\ errors = <<>>
    /\ warning = "none"
    /\ NoTcp
    /\ NoMpi

\* Variant: the barrier counts the worker threads only.
barrier_parties_workers_only(num_threads) == num_threads

\* `Barrier::new(num_threads + 1)`, +1 for the main thread
barrier_parties(num_threads) == num_threads + 1

\* `barrier.wait()`, arrival: the caller that completes the party resets the
\* count and opens the next generation, every other caller is counted.
barrier_arrive(b, parties) ==
    IF b.count + 1 >= parties
    THEN [count |-> 0, generation_id |-> b.generation_id + 1]
    ELSE [b EXCEPT !.count = @ + 1]

\* `barrier.wait()` returns once the generation the caller arrived in is over.
barrier_released(b, local_gen) == b.generation_id # local_gen

\* set_thread_scheduling(policy, priority): the outcomes it can return.
\* "ALL" is a no-op; otherwise sched_setscheduler decides (a build for
\* another system always returns the error).
set_thread_scheduling(p) ==
    IF p = "ALL" THEN {"ok"} ELSE {"ok", "Failed to set scheduling policy"}

\* Variant: join results are dropped.
collect_join_ignored(errs, result) == errs

\* `match handle.join() { Ok(Ok(())) => {}, Ok(Err(e)) => errors.push(e), .. }`
collect_join(errs, result) ==
    IF result = "ok" THEN errs ELSE Append(errs, result)

\* `thread_metrics` of the closure, without the durations
thread_metrics(t) ==
    [thread_id |-> t, primes_found |-> thr[t].total_primes, work_iterations |-> iterations]

\* The fields of `Ok(PolicyMetrics { .. })` that are not durations.
policy_metrics(metrics_guard) ==
    [policy |-> policy, total_threads |-> Len(metrics_guard),
     total_primes |-> metrics_guard[1].primes_found]

schedOther == <<base_primes, assigned, main_out, base_sieve_calls, results, results_lock>>

\* One iteration of `for thread_id in 0..num_threads { .. thread::spawn(..) .. }`.
SchedSpawn ==
    /\ strategy = "sched"
    /\ mpc = "spawn"
    /\ idx < nworkers
    /\ thr' = [thr EXCEPT ![idx].pc = "set_policy"]
    /\ handles' = Append(handles, idx)
    /\ idx' = idx + 1
    /\ UNCHANGED <<mpc, ret, metrics, metrics_lock, barrier, errors, warning>>
    /\ UNCHANGED <<fnVars, runVars, policy, iterations, schedOther, tcpVars, mpiVars>>

\* `let policy_result = set_thread_scheduling(policy, priority);` and the
\* lines up to the barrier.
SchedSetPolicy(t) ==
    /\ strategy = "sched"
    /\ thr[t].pc = "set_policy"
    /\ \E r \in set_thread_scheduling(policy) :
          thr' = [thr EXCEPT ![t].policy_result = r, ![t].pc = "barrier"]
    /\ UNCHANGED <<mpc, idx, ret, handles, metrics, metrics_lock, barrier, errors, warning>>
    /\ UNCHANGED <<fnVars, runVars, policy, iterations, schedOther, tcpVars, mpiVars>>

\* The thread's `barrier.wait();`, arrival.
SchedArrive(t) ==
    /\ strategy = "sched"
    /\ thr[t].pc = "barrier"
    /\ barrier' = barrier_arrive(barrier, barrier_parties(nworkers))
    /\ thr' = [thr EXCEPT ![t].local_gen = barrier.generation_id,
                          ![t].pc = IF barrier_released(barrier', barrier.generation_id)
                                    THEN "work" ELSE "barrier_wait"]
    /\ UNCHANGED <<mpc, idx, ret, handles, metrics, metrics_lock, errors, warning>>
    /\ UNCHANGED <<fnVars, runVars, policy, iterations, schedOther, tcpVars, mpiVars>>

\* The thread's `barrier.wait();`, return.
SchedRelease(t) ==
    /\ strategy = "sched"
    /\ thr[t].pc = "barrier_wait"
    /\ barrier_released(barrier, thr[t].local_gen)
    /\ thr' = [thr EXCEPT ![t].pc = "work"]
    /\ UNCHANGED <<mpc, idx, ret, handles, metrics, metrics_lock, barrier, errors, warning>>
    /\ UNCHANGED <<fnVars, runVars, policy, iterations, schedOther, tcpVars, mpiVars>>

\* `for _ in 0..iterations { let primes = calculate_primes(limit);
\*  total_primes = primes.len(); thread::yield_now(); }`, one iteration or
\* the end of the loop.
SchedWork(t) ==
    /\ strategy = "sched"
    /\ thr[t].pc = "work"
    /\ IF thr[t].it < iterations
       THEN thr' = [thr EXCEPT ![t].total_primes = Len(calculate_primes(limit)),
                               ![t].it = @ + 1]
       ELSE thr' = [thr EXCEPT ![t].pc = "lock"]
    /\ UNCHANGED <<mpc, idx, ret, handles, metrics, metrics_lock, barrier, errors, warning>>
    /\ UNCHANGED <<fnVars, runVars, policy, iterations, schedOther, tcpVars, mpiVars>>

\* `let mut guard = metrics.lock().unwrap();`
SchedLock(t) ==
    /\ strategy = "sched"
    /\ thr[t].pc = "lock"
    /\ lock_returns(metrics_lock)
    /\ metrics_lock' = t
    /\ thr' = [thr EXCEPT ![t].pc = "push"]
    /\ UNCHANGED <<mpc, idx, ret, handles, metrics, barrier, errors, warning>>
    /\ UNCHANGED <<fnVars, runVars, policy, iterations, schedOther, tcpVars, mpiVars>>

\* `guard.push(thread_metrics); policy_result` and the end of the closure.
SchedPush(t) ==
    /\ strategy = "sched"
    /\ thr[t].pc = "push"
    /\ metrics' = Append(metrics, thread_metrics(t))
    /\ metrics_lock' = Free
    /\ thr' = [thr EXCEPT ![t].pc = "done"]
    /\ UNCHANGED <<mpc, idx, ret, handles, barrier, errors, warning>>
    /\ UNCHANGED <<fnVars, runVars, policy, iterations, schedOther, tcpVars, mpiVars>>

\* main's `barrier.wait();` after the spawn loop, arrival.
SchedMainArrive ==
    /\ strategy = "sched"
    /\ mpc = "spawn"
    /\ idx = nworkers
    /\ barrier' = barrier_arrive(barrier, barrier_parties(nworkers))
    /\ mpc' = IF barrier_released(barrier', barrier.generation_id)
              THEN "join" ELSE "barrier_wait"
    /\ idx' = 0
    /\ UNCHANGED <<ret, thr, handles, metrics, metrics_lock, errors, warning>>
    /\ UNCHANGED <<fnVars, runVars, policy, iterations, schedOther, tcpVars, mpiVars>>

\* main's `barrier.wait();`, return (main arrives in generation 0).
SchedMainRelease ==
    /\ strategy = "sched"
    /\ mpc = "barrier_wait"
    /\ barrier_released(barrier, 0)
    /\ mpc' = "join"
    /\ UNCHANGED <<idx, ret, thr, handles, metrics, metrics_lock, barrier, errors, warning>>
    /\ UNCHANGED <<fnVars, runVars, policy, iterations, schedOther, tcpVars, mpiVars>>

\* One iteration of `for handle in handles { match handle.join() { .. } }`.
SchedJoin ==
    /\ strategy = "sched"
    /\ mpc = "join"
    /\ idx < Len(handles)
    /\ LET t == handles[idx + 1]
       IN  /\ join_returns(thr[t].pc)
           /\ errors' = collect_join(errors, thr[t].policy_result)
    /\ idx' = idx + 1
    /\ UNCHANGED <<mpc, ret, thr, handles, metrics, metrics_lock, barrier, warning>>
    /\ UNCHANGED <<fnVars, runVars, policy, iterations, schedOther, tcpVars, mpiVars>>

\* After the join loop: the warning, `metrics.lock().unwrap()`, the check
\* for an empty vector and the result.
SchedFinish ==
    /\ strategy = "sched"
    /\ mpc = "join"
    /\ idx = Len(handles)
    /\ \E verbose \in BOOLEAN :
          warning' = IF errors # <<>> /\ verbose THEN errors[1] ELSE "none"
    /\ lock_returns(metrics_lock)
    /\ ret' = IF metrics = <<>>
              THEN [kind |-> "err", error |-> "No metrics collected"]
              ELSE [kind |-> "ok", result |-> policy_metrics(metrics)]
    /\ mpc' = "done"
    /\ UNCHANGED <<idx, thr, handles, metrics, metrics_lock, barrier, errors>>
    /\ UNCHANGED <<fnVars, runVars, policy, iterations, schedOther, tcpVars, mpiVars>>

NextSched ==
    \/ SchedSpawn
    \/ \E t \in ThreadIds : SchedSetPolicy(t)
    \/ \E t \in ThreadIds : SchedArrive(t)
    \/ \E t \in ThreadIds : SchedRelease(t)
    \/ \E t \in ThreadIds : SchedWork(t)
    \/ \E t \in ThreadIds : SchedLock(t)
    \/ \E t \in ThreadIds : SchedPush(t)
    \/ SchedMainArrive
    \/ SchedMainRelease
    \/ SchedJoin
    \/ SchedFinish

SpecSched == InitSched /\ [][NextSched]_vars

\* What the main thread of run_with_policy does next.
SchedMain ==
    \/ SchedSpawn
    \/ SchedMainArrive
    \/ SchedMainRelease
    \/ SchedJoin
    \/ SchedFinish

\* What worker thread t does next.
SchedThread(t) ==
    /\ t \in ThreadIds
    /\ \/ SchedSetPolicy(t)
       \/ SchedArrive(t)
       \/ SchedRelease(t)
       \/ SchedWork(t)
       \/ SchedLock(t)
       \/ SchedPush(t)

\* The operating system runs every thread that can run.
FairnessSched ==
    /\ WF_vars(SchedMain)
    /\ \A t \in 0..(MaxSchedThreads - 1) : WF_vars(SchedThread(t))

\* The runs whose every thread asks for a real-time policy, on the largest
\* limit.
InitSchedRealTime ==
    /\ InitSched
    /\ policy = "SCHED_FIFO"
    /\ limit = MaxSchedLimit

FairSched == InitSchedRealTime /\ [][NextSched]_vars /\ FairnessSched

(***************************************************************************)
(* The engine: one run of one strategy.                                    *)
(***************************************************************************)
Init == InitThread \/ InitTcp \/ InitMpi \/ InitSingle

Next == NextThread \/ NextTcp \/ NextMpi \/ NextSingle

Spec == Init /\ [][Next]_vars

(***************************************************************************)
(* C1: for every limit >= 0 and worker count >= 1 the base primes and the  *)
(* results of sieve_segment on every range of the partition are, as a set, *)
(* exactly simple_sieve(limit); segmented_sieve_parallel(limit, n) returns *)
(* the same primes as the plain sieve of the full limit.                   *)
(***************************************************************************)
SpawnedThreads == {handles[k] : k \in 1..Len(handles)}

C1_ParallelMatchesPlain ==
    (strategy = "thread" /\ ret.kind = "ok") =>
        /\ Range(ret.primes) = Range(simple_sieve(limit))
        /\ Len(ret.primes) = Len(simple_sieve(limit))
        /\ limit >= 2 =>
              Range(base_primes)
                  \cup UNION {Range(thr[t].segment_primes) : t \in SpawnedThreads}
              = Range(simple_sieve(limit))

C1_Witness ==
    /\ strategy = "thread"
    /\ limit = 23
    /\ nworkers = 2
    /\ ret.kind = "ok"
    /\ ret.primes = <<2, 3, 5, 7, 11, 13, 17, 19, 23>>

(***************************************************************************)
(* C2: in the in-process strategy the returned sequence is, for a fixed    *)
(* limit, the same strictly increasing sequence for every worker count     *)
(* and every interleaving and completion order of the worker threads.      *)
(***************************************************************************)
C2_OutputDependsOnLimitOnly ==
    (strategy = "thread" /\ ret.kind = "ok") =>
        ret.primes = SortedSeq(PrimesIn(2, limit))

\* thread 2 finished before thread 0, both segments holding primes
C2_Witness ==
    /\ strategy = "thread"
    /\ nworkers = 3
    /\ ret.kind = "ok"
    /\ Len(ret.segments) = 3
    /\ ret.segments[1][1] > ret.segments[3][1]
    /\ ret.segments[1][3] > 0
    /\ ret.segments[3][3] > 0

(***************************************************************************)
(* C3: the ranges computed for workers 0..worker_count-1 are pairwise      *)
(* disjoint, in increasing order, and their union is exactly               *)
(* [base_prime_limit + 1, limit]; in the thread, the collective and the    *)
(* socket partitioning alike.                                              *)
(***************************************************************************)
Interval(a) == a.low..a.high

\* number of shares of the run's partition
Shares == IF strategy = "tcp" THEN nworkers + 1 ELSE nworkers

C3_PartitionExact ==
    /\ \A a \in assigned : a.id \in 0..(Shares - 1)
    /\ \A a, b \in assigned :
          a.id < b.id => \A x \in Interval(a), y \in Interval(b) : x < y
    /\ \A a, b \in assigned : a.id = b.id => a = b
    /\ (strategy \in {"thread", "tcp", "mpi"} /\ Cardinality(assigned) = Shares) =>
          UNION {Interval(a) : a \in assigned} = (sqrt_u64(limit) + 1)..limit

C3_Witness ==
    /\ strategy = "tcp"
    /\ limit = 11
    /\ assigned = {[id |-> 0, low |-> 4, high |-> 6],
                   [id |-> 1, low |-> 7, high |-> 9],
                   [id |-> 2, low |-> 10, high |-> 11]}

(***************************************************************************)
(* C4: every DistributedResult (collective rank 0 and the other ranks,     *)
(* socket coordinator, single-node fallback) satisfies                     *)
(* total_primes = base_prime_count + sum of node_counts.                   *)
(***************************************************************************)
TotalIsBasePlusNodes(r) ==
    r.total_primes = r.base_prime_count + SumSeq(r.node_counts)

C4_TotalIsBasePlusNodes ==
    /\ (strategy \in {"tcp", "single"} /\ ret.kind = "ok") =>
          TotalIsBasePlusNodes(ret.result)
    /\ strategy = "mpi" =>
          \A r \in Ranks : rk[r].ret.kind = "ok" => TotalIsBasePlusNodes(rk[r].ret.result)

C4_Witness ==
    /\ strategy = "tcp"
    /\ nworkers = 2
    /\ limit = 12
    /\ ret.kind = "ok"
    /\ ret.result.base_prime_count = 2
    /\ ret.result.node_counts = <<1, 1, 1>>
    /\ ret.result.total_primes = 5

(***************************************************************************)
(* C5: every range handed to a worker (thread, rank, socket worker, the    *)
(* coordinator's own share) has low strictly above the base-prime bound,   *)
(* so no number is both a base prime and a segment prime.                  *)
(***************************************************************************)
C5_SegmentsAboveBase ==
    LET bound == sqrt_u64(limit)
    IN  /\ \A a \in assigned : a.low > bound
        /\ \A k \in 1..Len(base_primes) : base_primes[k] <= bound
        /\ strategy = "thread" =>
              \A t \in SpawnedThreads :
                  /\ thr[t].seg_low > bound
                  /\ Range(thr[t].segment_primes) \cap Range(base_primes) = {}
        /\ strategy = "tcp" =>
              \A w \in WorkerIds :
                  wk[w].pc \in {"sieve", "done"} =>
                      /\ wk[w].low > bound
                      /\ Range(sieve_segment(wk[w].low, wk[w].high, wk[w].base_primes))
                             \cap Range(wk[w].base_primes) = {}
        /\ strategy = "mpi" =>
              \A r \in Ranks : (rk[r].pc \in {"gather", "done"} => rk[r].my_low > bound)

C5_Witness ==
    /\ strategy = "thread"
    /\ limit = 25
    /\ base_primes = <<2, 3, 5>>
    /\ thr[0].pc = "done"
    /\ thr[0].seg_low = 6
    /\ thr[0].segment_primes # <<>>

(***************************************************************************)
(* C9: a run that returns returns either a complete aggregate, holding     *)
(* the contribution of every dispatched assignment, or an error without    *)
(* any aggregate; no returned total misses the count of a dispatched       *)
(* worker (a panicked thread, a worker whose connection failed).           *)
(***************************************************************************)
CountOf(a, base) == Len(sieve_segment(a.low, a.high, base))

C9_CompleteOrError ==
    /\ ret.kind \in {"none", "ok", "err"}
    /\ ret.kind = "err" => DOMAIN ret = {"kind", "error"}
    /\ (strategy = "thread" /\ ret.kind = "ok" /\ limit >= 2) =>
          /\ \A t \in SpawnedThreads : thr[t].pc = "done"
          /\ Cardinality(assigned) = nworkers
          /\ \A a \in assigned : Len(results[a.id + 1]) = CountOf(a, base_primes)
          /\ ret.primes = base_primes \o Flatten(results)
    /\ (strategy = "tcp" /\ ret.kind = "ok") =>
          /\ Cardinality(assigned) = nworkers + 1
          /\ Len(ret.result.node_counts) = nworkers + 1
          /\ \A a \in assigned :
                ret.result.node_counts[a.id + 1] = CountOf(a, base_primes)
          /\ \A k \in 1..nworkers :
                ret.result.node_counts[k + 1] = wk[workers[k]].count
    /\ (strategy = "mpi" /\ rk[0].pc = "done") =>
              /\ Cardinality(assigned) = nworkers
              /\ Len(rk[0].ret.result.node_counts) = nworkers
              /\ \A a \in assigned :
                    rk[0].ret.result.node_counts[a.id + 1]
                        = CountOf(a, rk[0].base_primes)

\* a worker thread panicked after another one had stored its primes
C9_Witness ==
    /\ strategy = "thread"
    /\ mpc = "panicked"
    /\ ret.kind = "err"
    /\ \E t, u \in SpawnedThreads :
          /\ thr[t].pc = "panicked"
          /\ thr[u].pc = "done"
          /\ thr[u].segment_primes # <<>>

(***************************************************************************)
(* C10 (as claimed): in the socket strategy computing the base primes,     *)
(* partitioning, sending any work message and sieving the coordinator's    *)
(* own share all happen only after the worker_count-th connection has been *)
(* accepted.                                                               *)
(***************************************************************************)
BasePrimesComputed == strategy = "tcp" /\ mpc # "start"

Partitioned == strategy = "tcp" /\ master_segment_size # Unset

WorkSent ==
    /\ strategy = "tcp"
    /\ \/ assigned # {}
       \/ \E w \in WorkerIds : conn[w].c2w # <<>> \/ wk[w].pc \in {"read_data", "sieve", "done"}

OwnShareSieved == strategy = "tcp" /\ node_counts # <<>>

AllAccepted == Len(workers) = nworkers

C10_NoWorkBeforeAllConnected ==
    (BasePrimesComputed \/ Partitioned \/ WorkSent \/ OwnShareSieved) => AllAccepted

(***************************************************************************)
(* C10 (amended): the coordinator computes the base primes before it binds *)
(* and accepts; partitioning, sending any work message and sieving its own *)
(* share all happen only after the worker_count-th connection has been     *)
(* accepted.                                                               *)
(***************************************************************************)
C10_PartitionAfterAllConnected ==
    /\ BasePrimesComputed => base_primes = simple_sieve(sqrt_u64(limit))
    /\ (strategy = "tcp" /\ mpc = "start") => workers = <<>> /\ backlog = <<>>
    /\ (Partitioned \/ WorkSent \/ OwnShareSieved) => AllAccepted

C10_Witness ==
    /\ strategy = "tcp"
    /\ nworkers = 2
    /\ Len(workers) = 2
    /\ mpc = "send"
    /\ idx = 1
    /\ conn[workers[1]].c2w # <<>>
    /\ base_primes = <<2, 3>>

(***************************************************************************)
(* C11: the socket coordinator has sent the work message to every          *)
(* connected worker before it sieves its own share, and reads a worker's   *)
(* result only after its own share is sieved; it reads the results one     *)
(* connection at a time in accept order, whatever order the workers finish *)
(* in: entry k + 1 of node_counts is the count of the k-th accepted        *)
(* worker, and the result of a connection whose turn has not come stays    *)
(* unread in its stream.                                                   *)
(***************************************************************************)
\* number of results the master has read so far
ResultsRead == IF node_counts = <<>> THEN 0 ELSE Len(node_counts) - 1

\* the worker's 4 result bytes are in the stream, not yet read
ResultUnread(w) == Len(conn[w].w2c) = 4

C11_SendOwnCollectInAcceptOrder ==
    strategy = "tcp" =>
        /\ OwnShareSieved =>
              \A k \in 1..nworkers : \E a \in assigned : a.id = k
        /\ ResultsRead > 0 => OwnShareSieved /\ node_counts[1] =
              CountOf(CHOOSE a \in assigned : a.id = 0, base_primes)
        /\ ResultsRead <= Len(workers)
        /\ \A k \in 1..Len(workers) :
              LET w == workers[k]
              IN  IF k <= ResultsRead
                  THEN /\ wk[w].pc = "done"
                       /\ node_counts[k + 1] = wk[w].count
                       /\ conn[w].up => conn[w].w2c = <<>>
                  ELSE (wk[w].pc = "done" /\ conn[w].up) => ResultUnread(w)

\* The second accepted worker has finished and the first has not; the
\* master, its own share sieved, waits for the first.
C11_Witness ==
    /\ strategy = "tcp"
    /\ nworkers = 2
    /\ Len(workers) = 2
    /\ mpc = "recv"
    /\ ResultsRead = 0
    /\ wk[workers[1]].pc = "sieve"
    /\ wk[workers[2]].pc = "done"
    /\ ResultUnread(workers[2])
    /\ wk[workers[2]].count > 0

(***************************************************************************)
(* C12: in a socket run in which exactly worker_count workers connect and  *)
(* no send or receive fails, under fair scheduling the coordinator         *)
(* eventually returns an aggregate result and every worker eventually      *)
(* sends its result and terminates: every fair run either meets a failure  *)
(* of the environment (bind or accept fails, a connection is refused or    *)
(* breaks) or completes.                                                   *)
(***************************************************************************)
\* a failure that comes from outside the program
EnvFailure ==
    \/ ret.kind = "err" /\ ret.error \in {"Failed to bind", "Accept failed"}
    \/ \E w \in WorkerIds :
          \/ conn[w].made /\ ~ conn[w].up
          \/ wk[w].pc = "err" /\ ~ conn[w].made

TcpCompleted ==
    /\ strategy = "tcp"
    /\ mpc = "done"
    /\ ret.kind = "ok"
    /\ main_out = "printed"
    /\ Len(ret.result.node_counts) = nworkers + 1
    /\ \A w \in WorkerIds : wk[w].pc = "done" /\ conn[w].w2c = <<>>

ConnectableWorkers == {w \in WorkerIds : conn[w].made \/ wk[w].pc = "connect"}

\* the master has reached the accept loop of a run that too few workers join
TooFewWorkers ==
    /\ strategy = "tcp"
    /\ Cardinality(ConnectableWorkers) < nworkers
    /\ mpc \notin {"start", "bind"}
    /\ ~ (ret.kind = "err" /\ ret.error = "Failed to bind")

C13_StaysInAcceptLoop ==
    TooFewWorkers => mpc = "accept" /\ ~ WorkSent /\ ret.kind = "none"

(***************************************************************************)
(* C13 (amended): if fewer than worker_count workers ever connect, the     *)
(* coordinator never leaves the accept loop normally: it never partitions, *)
(* never sends a work message and never returns a result; it returns an    *)
(* error only when an accept call itself fails.                            *)
(***************************************************************************)
C13_NoProgressWithoutAllWorkers ==
    TooFewWorkers =>
        /\ ~ WorkSent
        /\ ~ Partitioned
        /\ ~ OwnShareSieved
        /\ ret.kind # "ok"
        /\ main_out # "printed"
        /\ \/ mpc = "accept" /\ ret.kind = "none"
           \/ mpc = "err" /\ ret = [kind |-> "err", error |-> "Accept failed"]

\* One of the two workers waited for has connected and been accepted and
\* waits for its work; no other worker exists; the master waits in accept.
C13_Witness ==
    /\ TooFewWorkers
    /\ nworkers = 2
    /\ launched = 1
    /\ mpc = "accept"
    /\ Len(workers) = 1
    /\ backlog = <<>>
    /\ wk[1].pc = "read_len"
    /\ conn[1].up

(***************************************************************************)
(* C14: an accept, send or receive failure on the coordinator ends the run *)
(* with an error: run_master returns Err at the first failing operation    *)
(* and main exits with status 1, and the workers still connected also end  *)
(* with an error rather than a result: none of them has ended normally,    *)
(* its result sent.                                                        *)
(***************************************************************************)
CoordinatorFailed ==
    /\ strategy = "tcp"
    /\ ret.kind = "err"
    /\ ret.error \in {"Accept failed", "Send failed", "Read failed"}

StillConnected(w) == conn[w].made /\ conn[w].up

C14_FailureEndsWorkersWithError ==
    CoordinatorFailed =>
        /\ mpc = "err"
        /\ main_out = "exit1"
        /\ \A w \in WorkerIds : StillConnected(w) => wk[w].pc # "done"

(***************************************************************************)
(* C15: an initialization failure of a distribution strategy, a socket     *)
(* bind/listen failure of the coordinator included, is not fatal: the run  *)
(* falls back to the single-node path and still produces a result, it does *)
(* not end with the failure as its outcome.                                *)
(***************************************************************************)
BindFailed ==
    strategy = "tcp" /\ ret = [kind |-> "err", error |-> "Failed to bind"]

C15_InitFailureFallsBack ==
    /\ BindFailed => main_out # "exit1"
    /\ strategy = "mpi" =>
          \A r \in Ranks :
              rk[r].pc = "single_done" =>
                  /\ rk[r].main_out = "printed"
                  /\ rk[r].ret = [kind |-> "ok", result |-> run_single_node(limit)]

(***************************************************************************)
(* C16: when neither the socket worker role nor socket mode is asked for   *)
(* and the collective strategy is unavailable or fails to initialise, the  *)
(* single-node path runs and the run ends with a printed result, never     *)
(* with an error; that result has nodes = 1, base_prime_count = 0 and      *)
(* total_primes = the number of primes up to limit.                        *)
(***************************************************************************)
IsSingleNodeResult(res) ==
    /\ res.nodes = 1
    /\ res.base_prime_count = 0
    /\ res.total_primes = Cardinality(PrimesIn(2, limit))
    /\ res.node_counts = <<res.total_primes>>

C16_SingleNodeFallbackResult ==
    /\ strategy = "single" =>
          /\ ret.kind # "err"
          /\ mpc # "start" =>
                /\ ret.kind = "ok"
                /\ IsSingleNodeResult(ret.result)
                /\ main_out = "printed"
    /\ strategy = "mpi" =>
          \A r \in Ranks :
              /\ rk[r].ret.kind # "err"
              /\ rk[r].pc = "single_done" =>
                    /\ rk[r].ret.kind = "ok"
                    /\ IsSingleNodeResult(rk[r].ret.result)
                    /\ rk[r].main_out = "printed"

\* A rank whose collective initialisation failed has run the single-node
\* path and printed its result.
C16_Witness ==
    /\ strategy = "mpi"
    /\ limit = 26
    /\ nworkers = 2
    /\ rk[1].pc = "single_done"
    /\ rk[1].main_out = "printed"
    /\ rk[1].ret.result.total_primes = 9
    /\ rk[1].ret.result.node_counts = <<9>>

(***************************************************************************)
(* C17: the in-process orchestrator reads the shared result buffer and     *)
(* builds its output only after every spawned worker thread has            *)
(* terminated: join passes a handle only when its thread has ended, and    *)
(* the step that builds the output finds every handle joined, every        *)
(* spawned thread ended and both locks free, so it interleaves with no     *)
(* worker still sieving or writing.                                        *)
(***************************************************************************)
C17_CollectAfterAllJoined ==
    [][strategy = "thread" =>
          /\ (mpc = "join" /\ idx' = idx + 1) => thr[handles[idx + 1]].pc = "done"
          /\ (mpc = "join" /\ ret.kind = "none" /\ ret'.kind = "ok") =>
                /\ idx = Len(handles)
                /\ \A t \in SpawnedThreads : thr[t].pc = "done"
                /\ results_lock = Free /\ metrics_lock = Free
                /\ ret'.primes = base_primes \o Flatten(results)
                /\ \A t \in SpawnedThreads :
                      results[t + 1] = thr[t].segment_primes]_vars

\* Three threads were spawned and all have ended; the output is built.
C17_Witness ==
    /\ strategy = "thread"
    /\ mpc = "done"
    /\ nworkers = 3
    /\ Len(handles) = 3
    /\ \A t \in SpawnedThreads : thr[t].pc = "done"
    /\ ret.kind = "ok"
    /\ Len(ret.primes) > Len(base_primes)

(***************************************************************************)
(* C18: in the in-process strategy a panic of any worker thread fails the  *)
(* whole run: once a spawned thread has panicked segmented_sieve_parallel  *)
(* never returns a prime list, the join of that thread panics the caller,  *)
(* and the failed worker is neither started again nor replaced by an empty *)
(* contribution.                                                           *)
(***************************************************************************)
PanickedThreads == {t \in SpawnedThreads : thr[t].pc = "panicked"}

C18_PanicFailsRun ==
    strategy = "thread" =>
        /\ PanickedThreads # {} =>
              /\ ret.kind # "ok"
              /\ main_out # "printed"
              /\ mpc \in {"spawn", "join", "panicked"}
        /\ mpc = "panicked" =>
              /\ ret = [kind |-> "err", error |-> "Thread panicked"]
              /\ main_out = "panic"
              /\ handles[idx + 1] \in PanickedThreads
        /\ Cardinality(SpawnedThreads) = Len(handles)
        /\ (mpc = "join" /\ PanickedThreads # {}) =>
              \A k \in 1..idx : handles[k] \notin PanickedThreads

\* The last of three threads panicked, the other two ended normally and
\* stored their primes; the join of the third failed the run.
C18_Witness ==
    /\ strategy = "thread"
    /\ nworkers = 3
    /\ Len(handles) = 3
    /\ mpc = "panicked"
    /\ idx = 2
    /\ PanickedThreads = {handles[3]}
    /\ results[handles[1] + 1] # <<>>
    /\ ret.kind = "err"

(***************************************************************************)
(* C19: in the collective strategy exactly one peer, rank 0, produces and  *)
(* prints a final result, whose node_counts has one entry per rank in rank *)
(* order; every other rank returns an empty result (nodes = 0) and prints  *)
(* nothing.                                                                *)
(***************************************************************************)
\* ranks that have returned from run_mpi with Ok
ReturnedRanks == {r \in Ranks : rk[r].pc = "done"}

C19_OnlyRootReports ==
    strategy = "mpi" =>
        /\ \A r \in ReturnedRanks :
              /\ rk[r].ret.kind = "ok"
              /\ IF r = 0
                 THEN LET res == rk[r].ret.result
                      IN  /\ res.nodes = nworkers
                          /\ Len(res.node_counts) = nworkers
                          /\ \A q \in Ranks :
                                /\ rk[q].pc \in {"gather", "done"}
                                /\ res.node_counts[q + 1] = rk[q].local_count
                                /\ res.node_counts[q + 1] =
                                      CountOf(CHOOSE a \in assigned : a.id = q,
                                              rk[q].base_primes)
                          /\ rk[r].main_out = "printed"
                 ELSE /\ rk[r].ret.result = DefaultResult
                      /\ rk[r].ret.result.nodes = 0
                      /\ rk[r].main_out = "silent"
        /\ \A r \in Ranks :
              (rk[r].main_out = "printed" /\ rk[r].pc # "single_done") => r = 0

\* All three ranks have returned; rank 0 has printed three counts.
C19_Witness ==
    /\ strategy = "mpi"
    /\ nworkers = 3
    /\ limit = 26
    /\ ReturnedRanks = Ranks
    /\ rk[0].main_out = "printed"
    /\ rk[0].ret.result.node_counts = <<2, 3, 1>>
    /\ rk[1].main_out = "silent"
    /\ rk[2].main_out = "silent"

(***************************************************************************)
(* C20: in a work message the 4-byte length prefix equals the number of    *)
(* bytes that follow it, which is 24 + 8 * base_prime_count; the worker    *)
(* reads exactly that many bytes, leaving nothing in the stream, and       *)
(* decodes low, high and all base_prime_count primes as the master sent    *)
(* them.                                                                   *)
(***************************************************************************)
WorkLength == 24 + 8 * Len(base_primes)

C20_LengthPrefixFramesWork ==
    strategy = "tcp" =>
        \A w \in WorkerIds :
            /\ (wk[w].pc = "read_len" /\ Len(conn[w].c2w) >= 4) =>
                  /\ from_le_bytes(SubSeq(conn[w].c2w, 1, 4)) = Len(conn[w].c2w) - 4
                  /\ Len(conn[w].c2w) - 4 = WorkLength
            /\ wk[w].pc = "read_data" =>
                  /\ wk[w].len = WorkLength
                  /\ conn[w].up => Len(conn[w].c2w) = wk[w].len
            /\ wk[w].pc \in {"sieve", "done"} =>
                  /\ wk[w].len = WorkLength
                  /\ conn[w].c2w = <<>>
                  /\ wk[w].base_primes = base_primes
                  /\ \E a \in assigned :
                        /\ a.id >= 1
                        /\ workers[a.id] = w
                        /\ wk[w].low = a.low
                        /\ wk[w].high = a.high

\* The second worker has read and decoded a 40-byte work message with two
\* base primes.
C20_Witness ==
    /\ strategy = "tcp"
    /\ limit = 12
    /\ nworkers = 2
    /\ Len(workers) = 2
    /\ wk[workers[2]].pc = "sieve"
    /\ wk[workers[2]].len = 40
    /\ wk[workers[2]].base_primes = <<2, 3>>
    /\ wk[workers[2]].low = 10
    /\ wk[workers[2]].high = 12

(***************************************************************************)
(* C21: on each coordinator-worker connection at most one work message and *)
(* at most one result message are ever sent, the result only after the     *)
(* work message has been received; nothing is sent a second time and a     *)
(* worker never processes a second assignment: the bytes ever written to a *)
(* connection are nothing or one whole message each way, and a worker that *)
(* has sent its result has ended.                                          *)
(***************************************************************************)
C21_OneWorkOneResult ==
    strategy = "tcp" =>
        \A w \in WorkerIds :
            /\ conn[w].c2w_written \in {0, 4 + WorkLength}
            /\ conn[w].w2c_written \in {0, 4}
            /\ conn[w].w2c_written = 4 =>
                  /\ conn[w].c2w_written = 4 + WorkLength
                  /\ wk[w].len = WorkLength
                  /\ wk[w].pc = "done"
                  /\ conn[w].up => conn[w].c2w = <<>>
            /\ wk[w].pc \in {"connect", "read_len"} => conn[w].w2c_written = 0
            /\ conn[w].c2w_written > 0 =>
                  Cardinality({a \in assigned : a.id >= 1 /\ workers[a.id] = w}) = 1

\* Both connections have carried their work message and their result, and
\* the master has read both results.
C21_Witness ==
    /\ strategy = "tcp"
    /\ nworkers = 2
    /\ limit = 12
    /\ mpc = "done"
    /\ \A w \in WorkerIds :
          /\ conn[w].c2w_written = 44
          /\ conn[w].w2c_written = 4
          /\ conn[w].c2w = <<>>
          /\ conn[w].w2c = <<>>

(***************************************************************************)
(* C22: when worker_count exceeds the size of the range above the          *)
(* base-prime bound, every worker whose computed low exceeds limit         *)
(* contributes zero primes and the total is unchanged: the thread variant  *)
(* spawns no thread for it, the collective variant sieves nothing, and the *)
(* socket variant sends a range with low > high for which the worker       *)
(* returns count 0.                                                        *)
(***************************************************************************)
\* the shares whose computed low lies above the limit
EmptyShares == {a \in assigned : a.low > limit}

PrimeCount == Cardinality(PrimesIn(2, limit))

C22_EmptySharesContributeZero ==
    /\ strategy = "thread" =>
          /\ \A a \in EmptyShares :
                /\ a.id \notin SpawnedThreads
                /\ thr[a.id].pc = "unspawned"
                /\ results[a.id + 1] = <<>>
          /\ (EmptyShares # {} /\ ret.kind = "ok") => Len(ret.primes) = PrimeCount
    /\ strategy = "mpi" =>
          /\ \A a \in EmptyShares :
                /\ rk[a.id].my_low = a.low
                /\ rk[a.id].local_count = 0
                /\ rk[0].pc = "done" => rk[0].ret.result.node_counts[a.id + 1] = 0
          /\ (EmptyShares # {} /\ rk[0].pc = "done") =>
                rk[0].ret.result.total_primes = PrimeCount
    /\ strategy = "tcp" =>
          /\ \A a \in EmptyShares :
                /\ a.high < a.low
                /\ a.id >= 1 =>
                      LET w == workers[a.id]
                      IN  /\ wk[w].pc \in {"sieve", "done"} =>
                                wk[w].low = a.low /\ wk[w].high = a.high
                          /\ wk[w].pc = "done" =>
                                wk[w].count = 0 /\ conn[w].w2c \in {<<>>, <<0, 0, 0, 0>>}
                /\ Len(node_counts) > a.id => node_counts[a.id + 1] = 0
          /\ (EmptyShares # {} /\ ret.kind = "ok") =>
                ret.result.total_primes = PrimeCount

\* Two workers and the master share the range 2..3: the second worker is
\* sent 4..3 and answers 0.
C22_Witness ==
    /\ strategy = "tcp"
    /\ limit = 3
    /\ nworkers = 2
    /\ [id |-> 2, low |-> 4, high |-> 3] \in EmptyShares
    /\ wk[workers[2]].pc = "done"
    /\ ret.kind = "ok"
    /\ ret.result.node_counts = <<1, 1, 0>>
    /\ ret.result.total_primes = 2

\* The same case in the thread variant and in the collective variant.
C22_WitnessThread ==
    /\ strategy = "thread"
    /\ mpc = "done"
    /\ EmptyShares # {}
    /\ Len(ret.primes) > 0

C22_WitnessMpi ==
    /\ strategy = "mpi"
    /\ rk[0].pc = "done"
    /\ EmptyShares # {}
    /\ rk[0].ret.result.total_primes > 0

(***************************************************************************)
(* C24: in the in-process strategy each spawned worker thread writes its   *)
(* own slot results[thread_id] exactly once and no other slot, always      *)
(* while holding the results lock: its slot is empty until its store and   *)
(* holds its primes from then on.  At no time do two threads hold the      *)
(* results lock together, and a worker never holds the results lock and    *)
(* the metrics lock at the same time.                                      *)
(***************************************************************************)
\* threads inside the critical section of results, and of metrics
InResults == {t \in DOMAIN thr : thr[t].pc = "store_results"}

InMetrics == {t \in DOMAIN thr : thr[t].pc = "store_metrics"}

C24_LockDiscipline ==
    strategy = "thread" =>
        /\ Cardinality(InResults) <= 1
        /\ Cardinality(InMetrics) <= 1
        /\ InResults \cap InMetrics = {}
        /\ \A t \in DOMAIN thr :
              /\ results_lock = t <=> t \in InResults
              /\ metrics_lock = t <=> t \in InMetrics
              /\ ~ (results_lock = t /\ metrics_lock = t)
              /\ results[t + 1] =
                    IF thr[t].pc \in {"lock_metrics", "store_metrics", "done"}
                    THEN thr[t].segment_primes
                    ELSE <<>>
        /\ results_lock \in {Free} \cup SpawnedThreads
        /\ metrics_lock \in {Free} \cup SpawnedThreads

\* One thread holds the results lock, another waits for it, and a third
\* holds the metrics lock, its own slot written.
C24_Witness ==
    /\ strategy = "thread"
    /\ nworkers = 3
    /\ \E a, b, c \in SpawnedThreads :
          /\ thr[a].pc = "store_results" /\ results_lock = a
          /\ thr[a].segment_primes # <<>>
          /\ thr[b].pc = "lock_results"
          /\ thr[c].pc = "store_metrics" /\ metrics_lock = c
          /\ results[c + 1] # <<>>

MetricsOf(t) == <<thr[t].seg_low, thr[t].seg_high, Len(thr[t].segment_primes)>>

C26_MetricsByThreadId ==
    (strategy = "thread" /\ ret.kind = "ok") =>
        \A i \in 0..(Len(ret.segments) - 1) : ret.segments[i + 1] = MetricsOf(i)

(***************************************************************************)
(* C27: in the socket strategy the range above the base-prime bound is     *)
(* split into worker_count + 1 shares, share 0 sieved by the coordinator   *)
(* and share i + 1 by the i-th accepted worker (i from 0); when all        *)
(* workers reply, node_counts has worker_count + 1 entries in that order   *)
(* and total_primes equals the single-node total for the same limit, for   *)
(* every limit >= 0 and every worker_count >= 0.                           *)
(***************************************************************************)
\* the share of the partition with the given id
ShareOf(id) == CHOOSE a \in assigned : a.id = id

C27_SocketTotalIsSingleNodeTotal ==
    strategy = "tcp" =>
        /\ \A a \in assigned :
              /\ a.id \in 0..nworkers
              /\ a.low = sqrt_u64(limit) + 1 + a.id * master_segment_size
              /\ a.id >= 1 =>
                    LET w == workers[a.id]
                    IN  wk[w].pc \in {"sieve", "done"} =>
                            wk[w].low = a.low /\ wk[w].high = a.high
        /\ OwnShareSieved =>
              node_counts[1] = Cardinality(PrimesIn(ShareOf(0).low, ShareOf(0).high))
        /\ ret.kind = "ok" =>
              /\ ret.result.nodes = nworkers + 1
              /\ Len(ret.result.node_counts) = nworkers + 1
              /\ Cardinality(assigned) = nworkers + 1
              /\ \A k \in 0..nworkers :
                    ret.result.node_counts[k + 1] =
                        Cardinality(PrimesIn(ShareOf(k).low, ShareOf(k).high))
              /\ \A k \in 1..nworkers :
                    ret.result.node_counts[k + 1] = wk[workers[k]].count
              /\ ret.result.total_primes = run_single_node(limit).total_primes

\* Limit 11 with two workers: the shares 4..6, 7..9, 10..11 hold 1, 1 and 1
\* primes, and with the base primes 2 and 3 that is the 5 primes up to 11.
C27_Witness ==
    /\ strategy = "tcp"
    /\ limit = 11
    /\ nworkers = 2
    /\ ret.kind = "ok"
    /\ ret.result.node_counts = <<1, 1, 1>>
    /\ ret.result.total_primes = 5
    /\ run_single_node(limit).total_primes = 5

\* No worker at all: the coordinator's share is the whole range.
C27_WitnessNoWorker ==
    /\ strategy = "tcp"
    /\ limit = 12
    /\ nworkers = 0
    /\ ret.kind = "ok"
    /\ ret.result.node_counts = <<3>>
    /\ ret.result.total_primes = 5

(***************************************************************************)
(* C28 (as stated): the base-prime bound is the ceiling of the square root *)
(* of the limit: the base set holds every prime <= ceil(sqrt(limit)) and   *)
(* the partitioned range starts at ceil(sqrt(limit)) + 1, for every limit, *)
(* perfect square or not.                                                  *)
(***************************************************************************)
CeilSqrt(l) == CHOOSE r \in 0..l : r * r >= l /\ (r = 0 \/ (r - 1) * (r - 1) < l)

FloorSqrt(l) == CHOOSE r \in 0..l : r * r <= l /\ (r + 1) * (r + 1) > l

\* the orchestrator of the thread or socket strategy holds its base primes
BaseSetBuilt ==
    \/ strategy = "thread" /\ mpc # "start" /\ limit >= 2
    \/ strategy = "tcp" /\ mpc # "start"

BaseBoundIs(bound) ==
    /\ BaseSetBuilt => base_primes = SortedSeq(PrimesIn(2, bound))
    /\ strategy = "mpi" =>
          \A r \in Ranks :
              rk[r].pc \in {"sieve", "gather"} =>
                  rk[r].base_primes = SortedSeq(PrimesIn(2, bound))
    /\ \A a \in assigned : a.id = 0 => a.low = bound + 1

PolicyFailed == {t \in ThreadIds : thr[t].policy_result \notin {"none", "ok"}}

\* thread t went through all its iterations and stored its metrics
DidItsWork(t) ==
    /\ thr[t].pc = "done"
    /\ thr[t].it = iterations
    /\ thr[t].total_primes =
          (IF iterations > 0 THEN Cardinality(PrimesIn(2, limit)) ELSE 0)
    /\ \E i \in 1..Len(metrics) :
          metrics[i] = [thread_id |-> t, primes_found |-> thr[t].total_primes,
                        work_iterations |-> iterations]

C23_PolicyFailureIsAWarning ==
    (strategy = "sched" /\ nworkers >= 1) =>
        /\ \A t \in ThreadIds :
              thr[t].pc \in {"unspawned", "set_policy"} => thr[t].policy_result = "none"
        /\ mpc = "done" =>
              /\ ret.kind = "ok"
              /\ ret.result.total_threads = nworkers
              /\ Len(errors) = Cardinality(PolicyFailed)
              /\ \A i \in 1..Len(errors) :
                    errors[i] = "Failed to set scheduling policy"
              /\ warning \in {"none", "Failed to set scheduling policy"}
              /\ warning # "none" => PolicyFailed # {}
              /\ \A t \in ThreadIds : DidItsWork(t)

\* Two threads, the policy could be set in neither, both did their work
\* and the call returned Ok with total_threads = 2 and a warning printed.
C23_Witness ==
    /\ strategy = "sched"
    /\ nworkers = 2
    /\ policy = "SCHED_FIFO"
    /\ iterations = 1
    /\ limit = MaxSchedLimit
    /\ PolicyFailed = {0, 1}
    /\ mpc = "done"
    /\ ret.kind = "ok"
    /\ ret.result.total_threads = 2
    /\ Len(errors) = 2
    /\ warning = "Failed to set scheduling policy"
    /\ \A t \in ThreadIds : DidItsWork(t) /\ thr[t].total_primes > 0

\* Only one of two threads failed to set the policy.
C23_WitnessSome ==
    /\ strategy = "sched"
    /\ nworkers = 2
    /\ PolicyFailed = {1}
    /\ mpc = "done"
    /\ ret.kind = "ok"
    /\ ret.result.total_threads = 2
    /\ Len(errors) = 1

(***************************************************************************)
(* C29: in run_with_policy no worker thread starts its prime computation   *)
(* until all num_threads workers and the main thread have reached the      *)
(* start barrier; the barrier of num_threads + 1 parties is always passed, *)
(* so for num_threads >= 1 every thread eventually finishes and records    *)
(* exactly one metrics entry, and for num_threads = 0 the call returns the *)
(* error "No metrics collected" without blocking.                          *)
(***************************************************************************)
ReachedBarrier(t) == thr[t].pc \notin {"unspawned", "set_policy", "barrier"}

MainReachedBarrier == mpc \in {"barrier_wait", "join", "done"}

StartedComputing(t) == thr[t].pc \in {"work", "lock", "push", "done"}

EntriesOf(t) == {i \in 1..Len(metrics) : metrics[i].thread_id = t}

\* nobody computes before everybody is at the barrier
StartAfterAllReached ==
    \A t \in ThreadIds :
        StartedComputing(t) =>
            /\ MainReachedBarrier
            /\ \A u \in ThreadIds : ReachedBarrier(u)

AtMostOneEntry ==
    \A t \in ThreadIds :
        Cardinality(EntriesOf(t)) = (IF thr[t].pc = "done" THEN 1 ELSE 0)

AllFinished ==
    /\ \A t \in ThreadIds : thr[t].pc = "done" /\ Cardinality(EntriesOf(t)) = 1
    /\ Len(metrics) = nworkers
    /\ barrier.generation_id = 1
    /\ mpc = "done"

ReturnedNoMetrics ==
    /\ mpc = "done"
    /\ ret = [kind |-> "err", error |-> "No metrics collected"]

C29_BarrierStartsEveryThread ==
    /\ [](strategy = "sched" =>
            /\ StartAfterAllReached
            /\ AtMostOneEntry
            /\ nworkers = 0 => mpc # "barrier_wait"
            /\ ret.kind = "err" => nworkers = 0)
    /\ (strategy = "sched" /\ nworkers >= 1) => <>[]AllFinished
    /\ (strategy = "sched" /\ nworkers = 0) => <>[]ReturnedNoMetrics

\* Two threads and main passed the barrier, both threads finished with one
\* entry each.
C29_Witness ==
    /\ strategy = "sched"
    /\ nworkers = 2
    /\ iterations = 1
    /\ AllFinished
    /\ ret.kind = "ok"

\* No thread: the barrier of one party let main through at once.
C29_WitnessNoThread ==
    /\ strategy = "sched"
    /\ nworkers = 0
    /\ barrier.generation_id = 1
    /\ ReturnedNoMetrics

(***************************************************************************)
(* C6: the plain sieve (sieve_of_eratosthenes, simple_sieve,               *)
(* calculate_primes) returns exactly the primes p with 2 <= p <= limit in  *)
(* strictly increasing order; the empty sequence when limit < 2 and <<2>>  *)
(* when limit = 2.                                                         *)
(***************************************************************************)
C6_PlainSieveCorrect ==
    (fn \in SieveNames /\ out.done) =>
        /\ Range(out.val) = PrimesIn(2, args.limit)
        /\ StrictlyIncreasing(out.val)
        /\ (args.limit < 2 => out.val = <<>>)
        /\ (args.limit = 2 => out.val = <<2>>)

C6_Witness ==
    /\ fn = "calculate_primes"
    /\ args.limit = 30
    /\ out.val = <<2, 3, 5, 7, 11, 13, 17, 19, 23, 29>>

(***************************************************************************)
(* C7: sieve_segment(low, high, base_primes), when base_primes holds every *)
(* prime p with p*p <= high, returns exactly the primes of [low, high] in  *)
(* increasing order, also when the range holds 0, 1 or base primes; when   *)
(* low > high it returns the empty sequence.                               *)
(***************************************************************************)
HasAllBasePrimes(high, primes) ==
    \A p \in 2..high : (IsPrime(p) /\ p * p <= high) => p \in Range(primes)

C8_WorkRoundTrip ==
    (fn = "work_round_trip" /\ out.done) =>
        out.val = <<args.low, args.high, args.base_primes>>

C8_Witness ==
    /\ fn = "work_round_trip"
    /\ out.done
    /\ args.low = 65537
    /\ args.high = 2147483647
    /\ args.base_primes = <<256, 255>>
    /\ out.val = <<65537, 2147483647, <<256, 255>>>>

====
